---- MODULE Spec2Model ----
(***************************************************************************)
(* PlexInvest Quebec calculation core: transfer tax, postal-code routing,  *)
(* mortgage insurance rule, mortgage payments, HELOC capacity and the      *)
(* BRRRR engine.  Every calculation is a pure function of one validated    *)
(* input record; a behaviour is one request: the inputs are drawn, the     *)
(* function is applied, the result record is held.                         *)
(*                                                                         *)
(* The program computes with decimal.Decimal.  The model carries the same  *)
(* numbers: a sign, an arbitrary-precision coefficient (little-endian      *)
(* limbs) and a number of decimal places, rounded to the context's 28      *)
(* significant digits after every operation as the decimal module does.    *)
(***************************************************************************)
EXTENDS Integers, Sequences, FiniteSets, TLC

VARIABLES pc, fn, arg, ret

vars == <<pc, fn, arg, ret>>

(***************************************************************************)
(* Arbitrary-precision naturals: the coefficient of a Decimal, as          *)
(* little-endian limbs.  The arithmetic is written as functions, so that   *)
(* an argument is evaluated once, where it is passed.                      *)
(***************************************************************************)
BASE == 10000

BigT == Seq(Nat)

RECURSIVE BNormRec(_)
BNormRec(s) ==
    IF s = <<>> THEN <<>>
    ELSE IF s[Len(s)] = 0 THEN BNormRec(SubSeq(s, 1, Len(s) - 1)) ELSE s

BNorm[s \in BigT] == BNormRec(s)

RECURSIVE BFromIntRec(_)
BFromIntRec(n) == IF n = 0 THEN <<>> ELSE <<n % BASE>> \o BFromIntRec(n \div BASE)

BFromInt[n \in Nat] == BFromIntRec(n)

RECURSIVE BCmpAtRec(_, _, _)
BCmpAtRec(a, b, i) ==
    IF i = 0 THEN 0
    ELSE IF a[i] < b[i] THEN -1
    ELSE IF a[i] > b[i] THEN 1
    ELSE BCmpAtRec(a, b, i - 1)

BCmpAt[a \in BigT, b \in BigT, i \in Nat] == BCmpAtRec(a, b, i)

\* -1, 0, 1 as a < b, a = b, a > b
BCmp[a \in BigT, b \in BigT] ==
    IF Len(a) < Len(b) THEN -1
    ELSE IF Len(a) > Len(b) THEN 1
    ELSE BCmpAt[a, b, Len(a)]

RECURSIVE BAddAtRec(_, _, _, _)
BAddAtRec(a, b, i, carry) ==
    IF i > Len(a) /\ i > Len(b)
    THEN (IF carry = 0 THEN <<>> ELSE <<carry>>)
    ELSE LET x == (IF i <= Len(a) THEN a[i] ELSE 0)
                  + (IF i <= Len(b) THEN b[i] ELSE 0) + carry
         IN  <<x % BASE>> \o BAddAtRec(a, b, i + 1, x \div BASE)

BAddAt[a \in BigT, b \in BigT, i \in Nat, carry \in Nat] == BAddAtRec(a, b, i, carry)

BAdd[a \in BigT, b \in BigT] == BAddAt[a, b, 1, 0]

RECURSIVE BSubAtRec(_, _, _, _)
BSubAtRec(a, b, i, borrow) ==
    IF i > Len(a) THEN <<>>
    ELSE LET x == a[i] - (IF i <= Len(b) THEN b[i] ELSE 0) - borrow
         IN  IF x < 0 THEN <<x + BASE>> \o BSubAtRec(a, b, i + 1, 1)
             ELSE <<x>> \o BSubAtRec(a, b, i + 1, 0)

BSubAt[a \in BigT, b \in BigT, i \in Nat, borrow \in Nat] == BSubAtRec(a, b, i, borrow)

\* a - b for a >= b
BSub[a \in BigT, b \in BigT] == BNorm[BSubAt[a, b, 1, 0]]

RECURSIVE BMulSmallAtRec(_, _, _, _)
BMulSmallAtRec(a, k, i, carry) ==
    IF i > Len(a) THEN BFromInt[carry]
    ELSE LET x == a[i] * k + carry
         IN  <<x % BASE>> \o BMulSmallAtRec(a, k, i + 1, x \div BASE)

BMulSmallAt[a \in BigT, k \in Nat, i \in Nat, carry \in Nat] == BMulSmallAtRec(a, k, i, carry)

\* a * k for a machine integer 0 <= k <= BASE
BMulSmall[a \in BigT, k \in Nat] == IF k = 0 THEN <<>> ELSE BMulSmallAt[a, k, 1, 0]

\* a * BASE^m
BShift[a \in BigT, m \in Nat] == IF a = <<>> THEN <<>> ELSE [i \in 1..m |-> 0] \o a

RECURSIVE BMulAtRec(_, _, _)
BMulAtRec(a, b, i) ==
    IF i > Len(b) THEN <<>>
    ELSE BAdd[BMulSmall[a, b[i]], BShift[BMulAtRec(a, b, i + 1), 1]]

BMulAt[a \in BigT, b \in BigT, i \in Nat] == BMulAtRec(a, b, i)

BMul[a \in BigT, b \in BigT] == IF a = <<>> \/ b = <<>> THEN <<>> ELSE BMulAt[a, b, 1]

\* the largest q in lo..hi with q * b <= r, given lo * b <= r
RECURSIVE BFindDigitRec(_, _, _, _)
BFindDigitRec(r, b, lo, hi) ==
    IF lo = hi THEN lo
    ELSE LET mid == (lo + hi + 1) \div 2
         IN  IF BCmp[BMulSmall[b, mid], r] <= 0
             THEN BFindDigitRec(r, b, mid, hi)
             ELSE BFindDigitRec(r, b, lo, mid - 1)

BFindDigit[r \in BigT, b \in BigT, lo \in Nat, hi \in Nat] == BFindDigitRec(r, b, lo, hi)

\* one limb of the long division: the quotient limb of r1 by b, and what is left
BDivLimbBy[r1 \in BigT, b \in BigT, d \in Nat] == [d |-> d, r |-> BSub[r1, BMulSmall[b, d]]]

BDivLimb[r1 \in BigT, b \in BigT] ==
    IF BCmp[r1, b] < 0 THEN [d |-> 0, r |-> r1]
    ELSE BDivLimbBy[r1, b, BFindDigit[r1, b, 1, BASE - 1]]

RECURSIVE BDivModAtRec(_, _, _, _)
BDivModAtRec(a, b, i, rem) ==
    IF i = 0 THEN [q |-> <<>>, r |-> rem]
    ELSE LET step == BDivLimb[BNorm[<<a[i]>> \o rem], b]
             rest == BDivModAtRec(a, b, i - 1, step.r)
         IN  [q |-> rest.q \o <<step.d>>, r |-> rest.r]

BDivModAt[a \in BigT, b \in BigT, i \in Nat, rem \in BigT] == BDivModAtRec(a, b, i, rem)

\* a quotient and a remainder
DivModT == [q : Seq(Nat), r : BigT]

BNormQuotient[x \in DivModT] == [q |-> BNorm[x.q], r |-> x.r]

\* divmod(a, b) for b > 0
BDivMod[a \in BigT, b \in BigT] == BNormQuotient[BDivModAt[a, b, Len(a), <<>>]]

RECURSIVE BDivSmallAtRec(_, _, _, _)
BDivSmallAtRec(a, k, i, rem) ==
    IF i = 0 THEN [q |-> <<>>, r |-> rem]
    ELSE LET x    == rem * BASE + a[i]
             rest == BDivSmallAtRec(a, k, i - 1, x % k)
         IN  [q |-> rest.q \o <<x \div k>>, r |-> rest.r]

BDivSmallAt[a \in BigT, k \in Nat, i \in Nat, rem \in Nat] == BDivSmallAtRec(a, k, i, rem)

\* divmod(a, k) for a machine integer 0 < k <= BASE
BDivModSmall[a \in BigT, k \in Nat] ==
    CHOOSE y \in {[q |-> BNorm[x.q], r |-> x.r] : x \in {BDivSmallAt[a, k, Len(a), 0]}} : TRUE

Pow10Small[r \in 0..3] == CASE r = 0 -> 1 [] r = 1 -> 10 [] r = 2 -> 100 [] r = 3 -> 1000

\* 10^j as a coefficient
BPow10[j \in Nat] == [i \in 1..(j \div 4) |-> 0] \o <<Pow10Small[j % 4]>>

\* a * 10^j
BMulPow10[a \in BigT, j \in Nat] == BShift[BMulSmall[a, Pow10Small[j % 4]], j \div 4]

DigitsSmall[n \in Nat] ==
    IF n >= 1000 THEN 4 ELSE IF n >= 100 THEN 3 ELSE IF n >= 10 THEN 2 ELSE 1

\* len(str(a)); the coefficient 0 prints as one digit
BDigits[a \in BigT] == IF a = <<>> THEN 1 ELSE 4 * (Len(a) - 1) + DigitsSmall[a[Len(a)]]

BIsOdd[a \in BigT] == a # <<>> /\ a[1] % 2 = 1

BLastDigit[a \in BigT] == IF a = <<>> THEN 0 ELSE a[1] % 10

\* ROUND_DOWN is the truncation of int()
RoundingModes == {"ROUND_HALF_UP", "ROUND_HALF_EVEN", "ROUND_DOWN"}

\* a / 10^j rounded to an integer
\* q rounded up or kept: half is the comparison of twice the remainder with the divisor
BRoundHalf[q \in BigT, half \in {-1, 0, 1}, rounding \in RoundingModes] ==
    IF /\ rounding # "ROUND_DOWN"
       /\ half > 0 \/ (half = 0 /\ (rounding = "ROUND_HALF_UP" \/ BIsOdd[q]))
    THEN BAdd[q, <<1>>]
    ELSE q

BRoundDivMod[dm \in DivModT, p \in BigT, rounding \in RoundingModes] ==
    BRoundHalf[dm.q, BCmp[BMulSmall[dm.r, 2], p], rounding]

BRoundBy[a \in BigT, p \in BigT, rounding \in RoundingModes] ==
    BRoundDivMod[BDivMod[a, p], p, rounding]

BRoundPow10[a \in BigT, j \in Nat, rounding \in RoundingModes] ==
    IF j = 0 THEN a ELSE BRoundBy[a, BPow10[j], rounding]

(***************************************************************************)
(* decimal.Decimal: sg * c * 10^(-e), under the default context            *)
(* (prec = 28, rounding = ROUND_HALF_EVEN).                                *)
(***************************************************************************)
PREC == 28

DecT == [sg : {-1, 1}, c : BigT, e : Int]

\* the zero coefficient carries the sign +
Dec[sg \in {-1, 1}, c \in BigT, e \in Int] ==
    [sg |-> IF c = <<>> THEN 1 ELSE sg, c |-> c, e |-> e]

\* Decimal of the machine integer n scaled by 10^(-e)
DecOf[n \in Int, e \in Int] ==
    Dec[IF n < 0 THEN -1 ELSE 1, BFromInt[IF n < 0 THEN -n ELSE n], e]

\* Decimal._fix: round to the context precision
DecFix[d \in DecT] ==
    LET n == BDigits[d.c]
    IN  IF n <= PREC THEN d
        ELSE Dec[d.sg, BRoundPow10[d.c, n - PREC, "ROUND_HALF_EVEN"], d.e - (n - PREC)]

MaxInt[x \in Int, y \in Int] == IF x >= y THEN x ELSE y

\* the coefficient of d at e >= d.e decimal places
CoefAt[d \in DecT, e \in Int] == BMulPow10[d.c, e - d.e]

\* -1, 0, 1 as a < b, a = b, a > b
DecCmp[a \in DecT, b \in DecT] ==
    LET e == MaxInt[a.e, b.e]
    IN  IF a.sg # b.sg THEN a.sg
        ELSE IF a.sg = 1 THEN BCmp[CoefAt[a, e], CoefAt[b, e]]
        ELSE BCmp[CoefAt[b, e], CoefAt[a, e]]

DecLt[a \in DecT, b \in DecT] == DecCmp[a, b] < 0
DecLe[a \in DecT, b \in DecT] == DecCmp[a, b] <= 0
DecEq[a \in DecT, b \in DecT] == DecCmp[a, b] = 0
DecGt[a \in DecT, b \in DecT] == DecCmp[a, b] > 0
DecGe[a \in DecT, b \in DecT] == DecCmp[a, b] >= 0

DecNeg[a \in DecT] == Dec[-a.sg, a.c, a.e]

\* the sum of sa * ca and sb * cb, both at e decimal places
DecAddAt[sa \in {-1, 1}, ca \in BigT, sb \in {-1, 1}, cb \in BigT, e \in Int] ==
    IF sa = sb THEN Dec[sa, BAdd[ca, cb], e]
    ELSE IF BCmp[ca, cb] >= 0 THEN Dec[sa, BSub[ca, cb], e]
    ELSE Dec[sb, BSub[cb, ca], e]

DecAdd[a \in DecT, b \in DecT] ==
    LET e == MaxInt[a.e, b.e]
    IN  DecFix[DecAddAt[a.sg, CoefAt[a, e], b.sg, CoefAt[b, e], e]]

DecSub[a \in DecT, b \in DecT] == DecAdd[a, DecNeg[b]]

DecMul[a \in DecT, b \in DecT] == DecFix[Dec[a.sg * b.sg, BMul[a.c, b.c], a.e + b.e]]

\* an exact quotient is brought as close to the ideal exponent as it goes
RECURSIVE DecStripToRec(_, _)
DecStripToRec(d, ideal) ==
    IF d.e > ideal /\ d.c # <<>> /\ BLastDigit[d.c] = 0
    THEN DecStripToRec(Dec[d.sg, BDivModSmall[d.c, 10].q, d.e - 1], ideal)
    ELSE d

DecStripTo[d \in DecT, ideal \in Int] == DecStripToRec(d, ideal)

\* the quotient digits of Decimal.__truediv__: inexact results get a sticky digit
DecDivAt[sg \in {-1, 1}, dm \in DivModT, e \in Int, ideal \in Int] ==
    IF dm.r # <<>>
    THEN Dec[sg, IF BLastDigit[dm.q] % 5 = 0 THEN BAdd[dm.q, <<1>>] ELSE dm.q, e]
    ELSE DecStripTo[Dec[sg, dm.q, e], ideal]

\* Decimal.__truediv__ for b # 0
DecDiv[a \in DecT, b \in DecT] ==
    IF a.c = <<>> THEN Dec[1, <<>>, a.e - b.e]
    ELSE LET shift == BDigits[b.c] - BDigits[a.c] + PREC + 1
         IN  DecFix[DecDivAt[a.sg * b.sg,
                             IF shift >= 0
                             THEN BDivMod[BMulPow10[a.c, shift], b.c]
                             ELSE BDivMod[a.c, BMulPow10[b.c, -shift]],
                             a.e - b.e + shift, a.e - b.e]]

\* Decimal.quantize to `places` decimal places
DecQuantize[d \in DecT, places \in Int, rounding \in RoundingModes] ==
    IF places >= d.e THEN Dec[d.sg, BMulPow10[d.c, places - d.e], places]
    ELSE Dec[d.sg, BRoundPow10[d.c, d.e - places, rounding], places]

\* the builtins max(a, b) and min(a, b): the first argument wins a tie
DecMax[a \in DecT, b \in DecT] == IF DecGt[b, a] THEN b ELSE a
DecMin[a \in DecT, b \in DecT] == IF DecLt[b, a] THEN b ELSE a

Zero == DecOf[0, 0]

None == [none |-> TRUE]

\* a local variable: With[[v \in {e} |-> body]] is body with v bound to the value
\* of e, which is evaluated once
With[f \in Any] == f[CHOOSE v \in DOMAIN f : TRUE]

(***************************************************************************)
(* transfer_tax.py                                                         *)
(***************************************************************************)
MunicipalityCode ==
    {"MONTREAL", "QUEBEC_CITY", "LAVAL", "LONGUEUIL", "GATINEAU",
     "SHERBROOKE", "TROIS_RIVIERES", "OTHER_QC"}

TaxBracket(lo, hi, rate) == [min |-> DecOf[lo, 0], max |-> DecOf[hi, 0], rate |-> rate]

BracketsMontreal ==
    << TaxBracket(0, 58900, DecOf[5, 3]),
       TaxBracket(58900, 294500, DecOf[1, 2]),
       TaxBracket(294500, 500000, DecOf[15, 3]),
       TaxBracket(500000, 1000000, DecOf[2, 2]),
       TaxBracket(1000000, 2000000, DecOf[25, 3]),
       TaxBracket(2000000, 999999999, DecOf[3, 2]) >>

BracketsFourTier ==
    << TaxBracket(0, 55200, DecOf[5, 3]),
       TaxBracket(55200, 276200, DecOf[1, 2]),
       TaxBracket(276200, 500000, DecOf[15, 3]),
       TaxBracket(500000, 999999999, DecOf[2, 2]) >>

BracketsThreeTier ==
    << TaxBracket(0, 55200, DecOf[5, 3]),
       TaxBracket(55200, 276200, DecOf[1, 2]),
       TaxBracket(276200, 999999999, DecOf[15, 3]) >>

\* the configuration TRANSFER_TAX_TABLES holds for a municipality code
TRANSFER_TAX_TABLES(municipality) ==
    CASE municipality = "MONTREAL" ->
            [name |-> "Montreal", brackets |-> BracketsMontreal,
             additional_rates |-> << [threshold |-> DecOf[2136600, 0], rate |-> DecOf[5, 3]] >>]
      [] municipality = "QUEBEC_CITY" ->
            [name |-> "Quebec", brackets |-> BracketsFourTier, additional_rates |-> <<>>]
      [] municipality = "LAVAL" ->
            [name |-> "Laval", brackets |-> BracketsFourTier, additional_rates |-> <<>>]
      [] municipality = "LONGUEUIL" ->
            [name |-> "Longueuil", brackets |-> BracketsFourTier, additional_rates |-> <<>>]
      [] municipality = "GATINEAU" ->
            [name |-> "Gatineau", brackets |-> BracketsThreeTier, additional_rates |-> <<>>]
      [] municipality = "SHERBROOKE" ->
            [name |-> "Sherbrooke", brackets |-> BracketsThreeTier, additional_rates |-> <<>>]
      [] municipality = "TROIS_RIVIERES" ->
            [name |-> "Trois-Rivieres", brackets |-> BracketsThreeTier, additional_rates |-> <<>>]
      [] municipality = "OTHER_QC" ->
            [name |-> "Autre (Quebec)", brackets |-> BracketsThreeTier, additional_rates |-> <<>>]

\* TRANSFER_TAX_TABLES.get(municipality) is None: the code has no entry
NoTaxConfig(municipality) == municipality \notin MunicipalityCode

ValueError == [raised |-> "ValueError"]

RECURSIVE BracketTaxLoop_FlatRate(_, _, _, _)
\* a faulty variant of the bracket loop (mutation test of C7): the whole price
\* is taxed at the rate of the last bracket it enters
BracketTaxLoop_FlatRate(brackets, i, purchase_price, total_tax) ==
    IF i > Len(brackets) THEN total_tax
    ELSE IF DecLe[purchase_price, brackets[i].min] THEN total_tax
    ELSE BracketTaxLoop_FlatRate(brackets, i + 1, purchase_price,
                                 DecMul[purchase_price, brackets[i].rate])

\* a faulty variant of the supplement loop (mutation test of C5): the
\* supplement replaces the running total instead of adding to it
AdditionalTaxLoop_Overwrite(additional_rates, i, purchase_price, total_tax) ==
    IF i > Len(additional_rates) THEN total_tax
    ELSE IF DecGt[purchase_price, additional_rates[i].threshold]
         THEN DecMul[DecSub[purchase_price, additional_rates[i].threshold],
                     additional_rates[i].rate]
         ELSE total_tax

RECURSIVE BracketTaxLoop(_, _, _, _)
\* the loop over tax_config["brackets"] of calculate_transfer_tax
BracketTaxLoop(brackets, i, purchase_price, total_tax) ==
    IF i > Len(brackets) THEN total_tax
    ELSE IF DecLe[purchase_price, brackets[i].min] THEN total_tax
    ELSE With[[taxable_amount \in {DecSub[DecMin[purchase_price, brackets[i].max], brackets[i].min]} |->
                 BracketTaxLoop(brackets, i + 1, purchase_price,
                     IF DecGt[taxable_amount, Zero]
                     THEN DecAdd[total_tax, DecMul[taxable_amount, brackets[i].rate]]
                     ELSE total_tax)]]

RECURSIVE AdditionalTaxLoop(_, _, _, _)
\* the loop over tax_config["additional_rates"]
AdditionalTaxLoop(additional_rates, i, purchase_price, total_tax) ==
    IF i > Len(additional_rates) THEN total_tax
    ELSE AdditionalTaxLoop(additional_rates, i + 1, purchase_price,
             IF DecGt[purchase_price, additional_rates[i].threshold]
             THEN DecAdd[total_tax,
                         DecMul[DecSub[purchase_price, additional_rates[i].threshold],
                                additional_rates[i].rate]]
             ELSE total_tax)

\* a faulty variant (mutation test of C11): a code without entry falls back to
\* the OTHER_QC table instead of raising
calculate_transfer_tax_DefaultTable(purchase_price, municipality) ==
    With[[tax_config \in {TRANSFER_TAX_TABLES(IF NoTaxConfig(municipality) THEN "OTHER_QC"
                                              ELSE municipality)} |->
    With[[bracket_tax \in {BracketTaxLoop(tax_config.brackets, 1, purchase_price, Zero)} |->
    With[[total_tax \in {
        AdditionalTaxLoop(tax_config.additional_rates, 1, purchase_price, bracket_tax)
    } |-> DecQuantize[total_tax, 2, "ROUND_HALF_UP"]]]]]]]

calculate_transfer_tax(purchase_price, municipality) ==
    IF NoTaxConfig(municipality) THEN ValueError
    ELSE With[[tax_config \in {TRANSFER_TAX_TABLES(municipality)} |->
         With[[bracket_tax \in {BracketTaxLoop(tax_config.brackets, 1, purchase_price, Zero)} |->
         With[[total_tax \in {
             AdditionalTaxLoop(tax_config.additional_rates, 1, purchase_price, bracket_tax)
         } |-> DecQuantize[total_tax, 2, "ROUND_HALF_UP"]]]]]]]

\* the TransferTaxBreakdownItem of one bracket; the rate label is the rate in percent
TransferTaxBreakdownItem(bracket, taxable_amount) ==
    [range |-> IF DecGe[bracket.max, DecOf[999999999, 0]]
               THEN <<bracket.min, "+">>
               ELSE <<bracket.min, bracket.max>>,
     rate  |-> DecQuantize[DecMul[bracket.rate, DecOf[100, 0]], 1, "ROUND_HALF_EVEN"],
     taxable_amount |-> DecQuantize[taxable_amount, 2, "ROUND_HALF_EVEN"],
     tax   |-> DecQuantize[DecMul[taxable_amount, bracket.rate], 2, "ROUND_HALF_EVEN"]]

RECURSIVE BreakdownLoop(_, _, _)
\* the loop of get_transfer_tax_breakdown: one item per contributing bracket
BreakdownLoop(brackets, i, purchase_price) ==
    IF i > Len(brackets) THEN <<>>
    ELSE IF DecLe[purchase_price, brackets[i].min] THEN <<>>
    ELSE With[[taxable_amount \in {DecSub[DecMin[purchase_price, brackets[i].max], brackets[i].min]} |->
                 (IF DecGt[taxable_amount, Zero]
                  THEN <<TransferTaxBreakdownItem(brackets[i], taxable_amount)>>
                  ELSE <<>>)
                 \o BreakdownLoop(brackets, i + 1, purchase_price)]]

RECURSIVE SumTax(_, _)
\* sum(b.tax for b in brackets): the sum starts at the integer 0
SumTax(items, i) ==
    IF i = 0 THEN Zero ELSE DecAdd[SumTax(items, i - 1), items[i].tax]

get_transfer_tax_breakdown(purchase_price, municipality) ==
    IF NoTaxConfig(municipality) THEN ValueError
    ELSE With[[tax_config \in {TRANSFER_TAX_TABLES(municipality)} |->
         With[[brackets \in {BreakdownLoop(tax_config.brackets, 1, purchase_price)} |->
         With[[additional_tax \in {
             AdditionalTaxLoop(tax_config.additional_rates, 1, purchase_price, Zero)
         } |->
                 [municipality   |-> tax_config.name,
                  purchase_price |-> purchase_price,
                  brackets       |-> brackets,
                  additional_tax |-> DecQuantize[additional_tax, 2, "ROUND_HALF_EVEN"],
                  total_tax      |-> DecQuantize[DecAdd[SumTax(brackets, Len(brackets)),
                                                        additional_tax],
                                                 2, "ROUND_HALF_EVEN"]]]]]]]]

(***************************************************************************)
(* Requests.  The inputs of one call are drawn in the initial state; the   *)
(* one step of a behaviour applies the function named by fn.               *)
(***************************************************************************)
MaxHalfSteps == 6

\* prices around every bracket bound, in steps of half a dollar
TaxPrices ==
    {DecAdd[DecOf[b, 0], DecOf[5 * k, 1]] :
        b \in {0, 50001, 55200, 58900, 276200, 294500, 300000, 500000, 1000000, 2000000,
               2136600, 999999999, 1000000000},
        k \in (-1)..MaxHalfSteps}

TaxMunicipalities == MunicipalityCode \cup {"ONTARIO"}

InitTax ==
    /\ pc = "call"
    /\ fn \in {"calculate_transfer_tax", "get_transfer_tax_breakdown"}
    /\ arg \in [purchase_price : TaxPrices, municipality : TaxMunicipalities]
    /\ ret = None

Run_calculate_transfer_tax ==
    /\ pc = "call" /\ fn = "calculate_transfer_tax"
    /\ ret' = calculate_transfer_tax(arg.purchase_price, arg.municipality)
    /\ pc' = "done"
    /\ UNCHANGED <<fn, arg>>

Run_get_transfer_tax_breakdown ==
    /\ pc = "call" /\ fn = "get_transfer_tax_breakdown"
    /\ ret' = get_transfer_tax_breakdown(arg.purchase_price, arg.municipality)
    /\ pc' = "done"
    /\ UNCHANGED <<fn, arg>>

NextTax == Run_calculate_transfer_tax \/ Run_get_transfer_tax_breakdown

SpecTax == InitTax /\ [][NextTax]_vars

SupportedTaxCall(f) ==
    pc = "done" /\ fn = f /\ arg.municipality \in MunicipalityCode

\* C1: for every price and supported municipality the total_tax of the
\* breakdown equals the scalar calculate_transfer_tax, to the cent.
C1_BreakdownTotalMatchesScalar ==
    SupportedTaxCall("get_transfer_tax_breakdown") =>
        DecEq[ret.total_tax, calculate_transfer_tax(arg.purchase_price, arg.municipality)]

\* C5: for a fixed supported municipality calculate_transfer_tax is
\* non-decreasing in price: p1 <= p2 implies tax(p1) <= tax(p2).
C5_TaxMonotoneInPrice ==
    SupportedTaxCall("calculate_transfer_tax") =>
        \A p1 \in TaxPrices :
            DecLe[p1, arg.purchase_price] =>
                DecLe[calculate_transfer_tax(p1, arg.municipality), ret]

\* a pair of prices on the two sides of the Montreal supplemental threshold,
\* and a price above the upper bound of the last bracket, have been compared
C5_Witness ==
    /\ SupportedTaxCall("calculate_transfer_tax")
    /\ arg.municipality = "MONTREAL"
    /\ \/ /\ DecGt[arg.purchase_price, DecOf[2136600, 0]]
          /\ DecLt[arg.purchase_price, DecOf[2136610, 0]]
          /\ DecGt[ret, calculate_transfer_tax(DecOf[2136600, 0], "MONTREAL")]
       \/ /\ DecGt[arg.purchase_price, DecOf[999999999, 0]]
          /\ DecGt[ret, calculate_transfer_tax(DecOf[999999999, 0], "MONTREAL")]

RECURSIVE ReferenceBracketSum(_, _, _)
\* the sum over the brackets with min < price of (min(price, max) - min) * rate
ReferenceBracketSum(brackets, i, price) ==
    IF i = 0 THEN Zero
    ELSE DecAdd[ReferenceBracketSum(brackets, i - 1, price),
                IF DecLt[brackets[i].min, price]
                THEN DecMul[DecSub[DecMin[price, brackets[i].max], brackets[i].min],
                            brackets[i].rate]
                ELSE Zero]

RECURSIVE ReferenceSupplementSum(_, _, _)
\* the sum over the thresholds with price > threshold of (price - threshold) * rate
ReferenceSupplementSum(additional_rates, i, price) ==
    IF i = 0 THEN Zero
    ELSE DecAdd[ReferenceSupplementSum(additional_rates, i - 1, price),
                IF DecGt[price, additional_rates[i].threshold]
                THEN DecMul[DecSub[price, additional_rates[i].threshold],
                            additional_rates[i].rate]
                ELSE Zero]

\* the progressive-bracket reference, rounded half-up once at the end
ReferenceTransferTax(price, municipality) ==
    With[[cfg \in {TRANSFER_TAX_TABLES(municipality)} |->
        DecQuantize[DecAdd[ReferenceBracketSum(cfg.brackets, Len(cfg.brackets), price),
                           ReferenceSupplementSum(cfg.additional_rates,
                                                  Len(cfg.additional_rates), price)],
                    2, "ROUND_HALF_UP"]]]

\* C7: calculate_transfer_tax equals the progressive-bracket reference (bracket
\* sum plus supplements, rounded once to cents); 300000 in MONTREAL gives 2733.00.
C7_TaxMatchesReference ==
    SupportedTaxCall("calculate_transfer_tax") =>
        /\ ret = ReferenceTransferTax(arg.purchase_price, arg.municipality)
        /\ (arg.municipality = "MONTREAL" /\ DecEq[arg.purchase_price, DecOf[300000, 0]])
               => ret = DecOf[273300, 2]

\* the scenario of the specification has been computed, and so has a price
\* above the supplemental threshold, which pays the supplement
C7_Witness ==
    /\ SupportedTaxCall("calculate_transfer_tax")
    /\ arg.municipality = "MONTREAL"
    /\ \/ DecEq[arg.purchase_price, DecOf[300000, 0]] /\ ret = DecOf[273300, 2]
       \/ DecEq[arg.purchase_price, DecOf[2136602, 0]] /\ ret = DecOf[4483107, 2]

(***************************************************************************)
(* transfer_tax.py: get_municipality_from_postal_code.  A string is a      *)
(* sequence of characters.  "j-caron" is U+01F0, a small letter whose      *)
(* upper case is the two characters J and the combining caron.             *)
(***************************************************************************)
Chars ==
    {"H", "h", "G", "g", "J", "j", "A", "a", "Z", "z",
     "1", "2", "4", "7", "8", "9", " ", "j-caron", "caron"}

\* str.upper() of one character
upper_char[c \in Chars] ==
    CASE c = "h" -> <<"H">>
      [] c = "g" -> <<"G">>
      [] c = "j" -> <<"J">>
      [] c = "a" -> <<"A">>
      [] c = "z" -> <<"Z">>
      [] c = "j-caron" -> <<"J", "caron">>
      [] OTHER -> <<c>>

\* a faulty variant (mutation test of C9): the code is not upper-cased
str_upper_Identity(s) == s

RECURSIVE str_upper(_)
\* postal_code.upper()
str_upper(s) ==
    IF s = <<>> THEN <<>> ELSE upper_char[Head(s)] \o str_upper(Tail(s))

\* s[:n]
str_slice(s, n) == SubSeq(s, 1, IF Len(s) < n THEN Len(s) ELSE n)

\* s.startswith(p)
startswith(s, p) == Len(s) >= Len(p) /\ SubSeq(s, 1, Len(p)) = p

\* a faulty variant (mutation test of C8): the general H rule is tried first
get_municipality_GeneralFirst(postal_code) ==
    IF startswith(str_upper(postal_code), <<"H">>) THEN "MONTREAL"
    ELSE IF startswith(str_upper(postal_code), <<"G", "1">>) THEN "QUEBEC_CITY"
    ELSE "OTHER_QC"

get_municipality_from_postal_code(postal_code) ==
    With[[prefix \in {IF postal_code # <<>> THEN str_slice(str_upper(postal_code), 3) ELSE <<>>} |->
            IF startswith(prefix, <<"H">>)
            THEN IF startswith(prefix, <<"H", "7">>) THEN "LAVAL" ELSE "MONTREAL"
            ELSE IF startswith(prefix, <<"G", "1">>) \/ startswith(prefix, <<"G", "2">>)
            THEN "QUEBEC_CITY"
            ELSE IF startswith(prefix, <<"J", "8">>) \/ startswith(prefix, <<"J", "9">>)
            THEN "GATINEAU"
            ELSE IF startswith(prefix, <<"J", "4">>) THEN "LONGUEUIL"
            ELSE IF startswith(prefix, <<"J", "1">>) THEN "SHERBROOKE"
            ELSE IF startswith(prefix, <<"G", "8">>) \/ startswith(prefix, <<"G", "9">>)
            THEN "TROIS_RIVIERES"
            ELSE "OTHER_QC"]]

MaxPostalLen == 3

\* every short string, and the postal codes of the scenarios
PostalCodes ==
    UNION {[1..n -> Chars] : n \in 0..MaxPostalLen}
    \cup { <<"H", "7", "A", " ", "1", "A", "1">>, <<"H", "1", "A", " ", "1", "A", "1">>,
           <<"G", "1", "A", " ", "1", "A", "1">>, <<"Z", "9", "Z", " ", "9", "Z", "9">>,
           <<"h", "7", "a", " ", "1", "a", "1">>, <<"j-caron", "4", "A", " ", "1", "A", "1">> }

InitPostal ==
    /\ pc = "call"
    /\ fn = "get_municipality_from_postal_code"
    /\ arg \in [postal_code : PostalCodes]
    /\ ret = None

Run_get_municipality_from_postal_code ==
    /\ pc = "call" /\ fn = "get_municipality_from_postal_code"
    /\ ret' = get_municipality_from_postal_code(arg.postal_code)
    /\ pc' = "done"
    /\ UNCHANGED <<fn, arg>>

NextPostal == Run_get_municipality_from_postal_code

SpecPostal == InitPostal /\ [][NextPostal]_vars

PostalCall == pc = "done" /\ fn = "get_municipality_from_postal_code"

\* the prefix rules of the claim, read on the upper-cased code, most specific first
ReferenceMunicipality(u) ==
    CASE startswith(u, <<"H", "7">>) -> "LAVAL"
      [] startswith(u, <<"H">>) /\ ~startswith(u, <<"H", "7">>) -> "MONTREAL"
      [] startswith(u, <<"G", "1">>) \/ startswith(u, <<"G", "2">>) -> "QUEBEC_CITY"
      [] startswith(u, <<"J", "8">>) \/ startswith(u, <<"J", "9">>) -> "GATINEAU"
      [] startswith(u, <<"J", "4">>) -> "LONGUEUIL"
      [] startswith(u, <<"J", "1">>) -> "SHERBROOKE"
      [] startswith(u, <<"G", "8">>) \/ startswith(u, <<"G", "9">>) -> "TROIS_RIVIERES"
      [] OTHER -> "OTHER_QC"

\* C8: the prefix rules apply most specific first: H7 is LAVAL, any other H is
\* MONTREAL, G1/G2 QUEBEC_CITY, J8/J9 GATINEAU, J4 LONGUEUIL, J1 SHERBROOKE,
\* G8/G9 TROIS_RIVIERES, and a code matching no rule is OTHER_QC.
C8_PostalPrefixRules ==
    PostalCall =>
        /\ ret = ReferenceMunicipality(str_upper(arg.postal_code))
        /\ arg.postal_code = <<"H", "7", "A", " ", "1", "A", "1">> => ret = "LAVAL"
        /\ arg.postal_code = <<"H", "1", "A", " ", "1", "A", "1">> => ret = "MONTREAL"
        /\ arg.postal_code = <<"G", "1", "A", " ", "1", "A", "1">> => ret = "QUEBEC_CITY"
        /\ arg.postal_code = <<"Z", "9", "Z", " ", "9", "Z", "9">> => ret = "OTHER_QC"

\* a code starting with H7 has been mapped to LAVAL, not to MONTREAL
C8_Witness ==
    /\ PostalCall
    /\ arg.postal_code = <<"H", "7", "A", " ", "1", "A", "1">>
    /\ ret = "LAVAL"

\* str.lower() of one character
lower_char[c \in Chars] ==
    CASE c = "H" -> <<"h">>
      [] c = "G" -> <<"g">>
      [] c = "J" -> <<"j">>
      [] c = "A" -> <<"a">>
      [] c = "Z" -> <<"z">>
      [] OTHER -> <<c>>

RECURSIVE str_lower(_)
str_lower(s) ==
    IF s = <<>> THEN <<>> ELSE lower_char[Head(s)] \o str_lower(Tail(s))

\* C9: the lookup is case-insensitive and total: the result for a string is
\* the result for its upper-cased and for its lower-cased form, it is always
\* a municipality code, and the empty string gives OTHER_QC.
C9_PostalCaseInsensitiveTotal ==
    PostalCall =>
        /\ ret \in MunicipalityCode
        /\ ret = get_municipality_from_postal_code(str_upper(arg.postal_code))
        /\ ret = get_municipality_from_postal_code(str_lower(arg.postal_code))
        /\ arg.postal_code = <<>> => ret = "OTHER_QC"
        /\ ReferenceMunicipality(str_upper(arg.postal_code)) = "OTHER_QC" => ret = "OTHER_QC"

\* a lower-case code has been mapped by a rule, as its upper-case form is
C9_Witness ==
    /\ PostalCall
    /\ arg.postal_code = <<"h", "7", "a">>
    /\ ret = "LAVAL"

(***************************************************************************)
(* brrrr_engine.py: calculate_cmhc_premium                                 *)
(***************************************************************************)
\* a faulty variant (mutation test of C3): the threshold set to 25%
CmhcNoInsuranceDownPayment_Quarter == DecOf[25, 2]

\* Decimal("0.20"): from this down payment on no insurance is required
CmhcNoInsuranceDownPayment == DecOf[20, 2]

CmhcMaxInsurablePrice == DecOf[999999, 0]

\* faulty variant of the return: the note is not appended (mutation test of C25)
CmhcResult_NoNote(premium_amount, premium_rate, note) ==
    [premium_amount |-> premium_amount, premium_rate |-> premium_rate, notes |-> <<>>]

\* the tuple (premium_amount, premium_rate, notes) the function returns
CmhcResult(premium_amount, premium_rate, note) ==
    [premium_amount |-> premium_amount, premium_rate |-> premium_rate, notes |-> <<note>>]

\* faulty variant of the decision list: the price ceiling is tested before the
\* occupancy and the unit count (mutation test of C16)
calculate_cmhc_premium_PriceFirst(loan_amount, down_payment_percent, is_owner_occupied, total_units, purchase_price) ==
    IF DecGe[down_payment_percent, CmhcNoInsuranceDownPayment]
    THEN CmhcResult(None, None, "Mise de fonds >= 20%: Aucune assurance SCHL requise")
    ELSE IF DecGt[purchase_price, CmhcMaxInsurablePrice]
    THEN CmhcResult(None, None, "Prix > 1M$: Non assurable SCHL, 20% minimum requis")
    ELSE IF ~is_owner_occupied
    THEN CmhcResult(None, None, "Investisseur non-occupant: Mise de fonds 20% minimum requise")
    ELSE IF total_units > 4
    THEN CmhcResult(None, None, "5+ logements: Financement commercial requis")
    ELSE IF DecGe[down_payment_percent, DecOf[15, 2]]
    THEN CmhcResult(DecQuantize[DecMul[loan_amount, DecOf[28, 3]], 2, "ROUND_HALF_EVEN"],
                    DecOf[28, 3], "Prime SCHL 2.8%: Mise de fonds 15-19.99%")
    ELSE IF DecGe[down_payment_percent, DecOf[10, 2]]
    THEN CmhcResult(DecQuantize[DecMul[loan_amount, DecOf[31, 3]], 2, "ROUND_HALF_EVEN"],
                    DecOf[31, 3], "Prime SCHL 3.1%: Mise de fonds 10-14.99%")
    ELSE CmhcResult(DecQuantize[DecMul[loan_amount, DecOf[4, 2]], 2, "ROUND_HALF_EVEN"],
                    DecOf[4, 2], "Prime SCHL 4.0%: Mise de fonds 5-9.99%")

calculate_cmhc_premium(loan_amount, down_payment_percent, is_owner_occupied, total_units, purchase_price) ==
    IF DecGe[down_payment_percent, CmhcNoInsuranceDownPayment]
    THEN CmhcResult(None, None, "Mise de fonds >= 20%: Aucune assurance SCHL requise")
    ELSE IF ~is_owner_occupied
    THEN CmhcResult(None, None, "Investisseur non-occupant: Mise de fonds 20% minimum requise")
    ELSE IF total_units > 4
    THEN CmhcResult(None, None, "5+ logements: Financement commercial requis")
    ELSE IF DecGt[purchase_price, CmhcMaxInsurablePrice]
    THEN CmhcResult(None, None, "Prix > 1M$: Non assurable SCHL, 20% minimum requis")
    ELSE IF DecGe[down_payment_percent, DecOf[15, 2]]
    THEN CmhcResult(DecQuantize[DecMul[loan_amount, DecOf[28, 3]], 2, "ROUND_HALF_EVEN"],
                    DecOf[28, 3], "Prime SCHL 2.8%: Mise de fonds 15-19.99%")
    ELSE IF DecGe[down_payment_percent, DecOf[10, 2]]
    THEN CmhcResult(DecQuantize[DecMul[loan_amount, DecOf[31, 3]], 2, "ROUND_HALF_EVEN"],
                    DecOf[31, 3], "Prime SCHL 3.1%: Mise de fonds 10-14.99%")
    ELSE CmhcResult(DecQuantize[DecMul[loan_amount, DecOf[4, 2]], 2, "ROUND_HALF_EVEN"],
                    DecOf[4, 2], "Prime SCHL 4.0%: Mise de fonds 5-9.99%")

MaxUnits == 5

\* down payments on both sides of every tier bound, in steps of a basis point
InitCmhc ==
    /\ pc = "call"
    /\ fn = "calculate_cmhc_premium"
    /\ arg \in [loan_amount :
                    {DecOf[0, 0], DecOf[95000, 0], DecOf[40012345, 2], DecOf[800000, 0]},
                down_payment_percent :
                    {DecOf[b + k, 4] : b \in {500, 1000, 1500, 2000}, k \in {-1, 0, 1}}
                        \cup {DecOf[25, 2], DecOf[1, 0]},
                is_owner_occupied : BOOLEAN,
                total_units : 1..MaxUnits,
                purchase_price :
                    {DecOf[100000, 0], DecOf[999999, 0], DecOf[99999901, 2], DecOf[1000000, 0]}]
    /\ ret = None

Run_calculate_cmhc_premium ==
    /\ pc = "call" /\ fn = "calculate_cmhc_premium"
    /\ ret' = calculate_cmhc_premium(arg.loan_amount, arg.down_payment_percent,
                                     arg.is_owner_occupied, arg.total_units,
                                     arg.purchase_price)
    /\ pc' = "done"
    /\ UNCHANGED <<fn, arg>>

NextCmhc == Run_calculate_cmhc_premium

SpecCmhc == InitCmhc /\ [][NextCmhc]_vars

CmhcCall == pc = "done" /\ fn = "calculate_cmhc_premium"

\* C3: with a down payment of 20% or more calculate_cmhc_premium returns no
\* premium amount and no premium rate, whatever the other arguments are.
C3_NoPremiumFromTwentyPercent ==
    (CmhcCall /\ DecGe[arg.down_payment_percent, DecOf[20, 2]]) =>
        ret.premium_amount = None /\ ret.premium_rate = None

\* a call with exactly 20% down that would be insured on every other count
C3_Witness ==
    /\ CmhcCall
    /\ arg.down_payment_percent = DecOf[2000, 4]
    /\ arg.is_owner_occupied /\ arg.total_units = 2
    /\ arg.purchase_price = DecOf[100000, 0]
    /\ ret.premium_amount = None /\ ret.premium_rate = None

\* the four exclusion rules in their order, as conditions on the arguments
CmhcRuleMatches(i) ==
    CASE i = 1 -> DecGe[arg.down_payment_percent, DecOf[20, 2]]
      [] i = 2 -> ~arg.is_owner_occupied
      [] i = 3 -> arg.total_units > 4
      [] i = 4 -> DecGt[arg.purchase_price, DecOf[999999, 0]]

CmhcRuleNote(i) ==
    CASE i = 1 -> "Mise de fonds >= 20%: Aucune assurance SCHL requise"
      [] i = 2 -> "Investisseur non-occupant: Mise de fonds 20% minimum requise"
      [] i = 3 -> "5+ logements: Financement commercial requis"
      [] i = 4 -> "Prix > 1M$: Non assurable SCHL, 20% minimum requis"

\* C16: calculate_cmhc_premium is a first-match-wins decision list over: down
\* payment >= 20%, not owner-occupied, unit count > 4, price > 999999.  When a
\* rule holds the result has no premium, no rate and exactly one note, that of
\* the first rule that holds; a premium is returned only when none holds.
C16_CmhcFirstMatchWins ==
    CmhcCall =>
        /\ \A i \in 1..4 :
               (CmhcRuleMatches(i) /\ \A j \in 1..(i - 1) : ~CmhcRuleMatches(j)) =>
                   /\ ret.premium_amount = None
                   /\ ret.premium_rate = None
                   /\ ret.notes = <<CmhcRuleNote(i)>>
        /\ ret.premium_amount # None => \A i \in 1..4 : ~CmhcRuleMatches(i)

\* a non-occupant buying a five-plex above the price ceiling with 19.99% down:
\* three rules hold, the note is that of the occupancy rule
C16_Witness ==
    /\ CmhcCall
    /\ arg.down_payment_percent = DecOf[1999, 4]
    /\ ~arg.is_owner_occupied /\ arg.total_units = 5
    /\ arg.purchase_price = DecOf[1000000, 0]
    /\ ret.premium_amount = None /\ ret.premium_rate = None
    /\ ret.notes = <<"Investisseur non-occupant: Mise de fonds 20% minimum requise">>

(***************************************************************************)
(* brrrr_engine.py: calculate_heloc_capacity                               *)
(***************************************************************************)
\* faulty variants of the two ceilings (mutation tests of C4 and C10)
BSIF_HELOC_ROTATING_LTV_MAX_Above == DecOf[85, 2]

BSIF_REFINANCE_LTV_MAX_Low == DecOf[75, 2]

\* faulty variant of the rotating ceiling (mutation test of C19)
BSIF_HELOC_ROTATING_LTV_MAX_Half == DecOf[50, 2]

BSIF_HELOC_ROTATING_LTV_MAX == DecOf[65, 2]

\* faulty variant of the total ceiling, below the rotating one (mutation test
\* of C26)
BSIF_REFINANCE_LTV_MAX_Sixty == DecOf[60, 2]

BSIF_REFINANCE_LTV_MAX == DecOf[80, 2]

\* x.quantize(PRECISION): no rounding argument, the context's ROUND_HALF_EVEN
Cents(x) == DecQuantize[x, 2, "ROUND_HALF_EVEN"]

\* x.quantize(Decimal("0.0001"))
FourDecimals(x) == DecQuantize[x, 4, "ROUND_HALF_EVEN"]

\* debt / property_value if property_value > 0 else Decimal("0")
LtvOf(debt, property_value) ==
    IF DecGt[property_value, Zero] THEN DecDiv[debt, property_value] ELSE Zero

\* faulty variant of the recommended limit: without access to the rotating
\* credit, the equity at the total ceiling (mutation test of C24)
calculate_heloc_capacity_LimitAtTotal(input_data) ==
    With[[total_current_debt \in {
        DecAdd[input_data.current_mortgage_balance, input_data.current_heloc_balance]
    } |->
    With[[max_total_borrowing \in {DecMul[input_data.current_property_value, BSIF_REFINANCE_LTV_MAX]} |->
    With[[max_rotating_credit \in {DecMul[input_data.current_property_value, BSIF_HELOC_ROTATING_LTV_MAX]} |->
    With[[available_at_rotating \in {DecMax[Zero, DecSub[max_rotating_credit, total_current_debt]]} |->
    With[[available_at_total \in {DecMax[Zero, DecSub[max_total_borrowing, total_current_debt]]} |->
    With[[can_access_rotating \in {DecLe[total_current_debt, max_rotating_credit]} |->
        [max_ltv_total       |-> BSIF_REFINANCE_LTV_MAX,
         max_ltv_rotating    |-> BSIF_HELOC_ROTATING_LTV_MAX,
         max_total_borrowing |-> Cents(max_total_borrowing),
         max_rotating_credit |-> Cents(max_rotating_credit),
         total_equity        |-> Cents(DecSub[input_data.current_property_value,
                                              total_current_debt]),
         available_equity_at_rotating |-> Cents(available_at_rotating),
         available_equity_at_total    |-> Cents(available_at_total),
         recommended_heloc_limit |->
             Cents(IF can_access_rotating THEN available_at_rotating ELSE available_at_total),
         can_access_rotating |-> can_access_rotating,
         current_ltv     |-> FourDecimals(LtvOf(total_current_debt,
                                                input_data.current_property_value)),
         after_heloc_ltv |-> FourDecimals(LtvOf(DecAdd[total_current_debt, available_at_total],
                                                input_data.current_property_value))]]]]]]]]]]]]]

calculate_heloc_capacity(input_data) ==
    With[[total_current_debt \in {
        DecAdd[input_data.current_mortgage_balance, input_data.current_heloc_balance]
    } |->
    With[[max_total_borrowing \in {DecMul[input_data.current_property_value, BSIF_REFINANCE_LTV_MAX]} |->
    With[[max_rotating_credit \in {DecMul[input_data.current_property_value, BSIF_HELOC_ROTATING_LTV_MAX]} |->
    With[[available_at_rotating \in {DecMax[Zero, DecSub[max_rotating_credit, total_current_debt]]} |->
    With[[available_at_total \in {DecMax[Zero, DecSub[max_total_borrowing, total_current_debt]]} |->
    With[[can_access_rotating \in {DecLe[total_current_debt, max_rotating_credit]} |->
        [max_ltv_total       |-> BSIF_REFINANCE_LTV_MAX,
         max_ltv_rotating    |-> BSIF_HELOC_ROTATING_LTV_MAX,
         max_total_borrowing |-> Cents(max_total_borrowing),
         max_rotating_credit |-> Cents(max_rotating_credit),
         total_equity        |-> Cents(DecSub[input_data.current_property_value,
                                              total_current_debt]),
         available_equity_at_rotating |-> Cents(available_at_rotating),
         available_equity_at_total    |-> Cents(available_at_total),
         recommended_heloc_limit |->
             Cents(IF can_access_rotating THEN available_at_rotating ELSE Zero),
         can_access_rotating |-> can_access_rotating,
         current_ltv     |-> FourDecimals(LtvOf(total_current_debt,
                                                input_data.current_property_value)),
         after_heloc_ltv |-> FourDecimals(LtvOf(DecAdd[total_current_debt, available_at_total],
                                                input_data.current_property_value))]]]]]]]]]]]]]

MaxCents == 10

\* HelocCapacityInput: every field is a Decimal >= 0
InitHeloc ==
    /\ pc = "call"
    /\ fn = "calculate_heloc_capacity"
    /\ arg \in [current_property_value :
                    {DecOf[0, 0], DecOf[1, 2], DecOf[3, 0], DecOf[500000, 0]}
                        \cup {DecOf[10000 + k, 2] : k \in 0..MaxCents},
                current_mortgage_balance :
                    {DecOf[0, 0], DecOf[1, 0], DecOf[300000, 0], DecOf[325000, 0],
                     DecOf[400000, 0], DecOf[600000, 0]}
                        \cup {DecOf[b + k, 2] : b \in {6500, 8000}, k \in 0..MaxCents},
                current_heloc_balance : {DecOf[0, 0], DecOf[1, 2], DecOf[25000, 0]}]
    /\ ret = None

Run_calculate_heloc_capacity ==
    /\ pc = "call" /\ fn = "calculate_heloc_capacity"
    /\ ret' = calculate_heloc_capacity(arg)
    /\ pc' = "done"
    /\ UNCHANGED <<fn, arg>>

NextHeloc == Run_calculate_heloc_capacity

SpecHeloc == InitHeloc /\ [][NextHeloc]_vars

HelocCall == pc = "done" /\ fn = "calculate_heloc_capacity"

\* C4: the reported available equity at the rotating ceiling is at most the
\* one at the total ceiling, and neither is negative.
C4_RotatingWithinTotal ==
    HelocCall =>
        /\ DecLe[ret.available_equity_at_rotating, ret.available_equity_at_total]
        /\ DecGe[ret.available_equity_at_rotating, Zero]
        /\ DecGe[ret.available_equity_at_total, Zero]

\* a debt between the two ceilings: nothing left at 65%, something left at 80%
C4_Witness ==
    /\ HelocCall
    /\ arg.current_property_value = DecOf[500000, 0]
    /\ arg.current_mortgage_balance = DecOf[325000, 0]
    /\ arg.current_heloc_balance = DecOf[25000, 0]
    /\ DecEq[ret.available_equity_at_rotating, Zero]
    /\ DecGt[ret.available_equity_at_total, Zero]

DecAbs(d) == [d EXCEPT !.sg = 1]

\* reported is a number of cents, at most half a cent away from exact
IsRoundedToCents(reported, exact) ==
    /\ reported.e = 2
    /\ DecLe[DecAbs(DecSub[reported, exact]), DecOf[5, 3]]

\* the reference of the claim, before any rounding
HelocDebt == DecAdd[arg.current_mortgage_balance, arg.current_heloc_balance]

HelocCeiling(ltv) == DecMul[ltv, arg.current_property_value]

\* C10 as stated: every reported field equals its unrounded reference
C10_HelocEqualsReference ==
    HelocCall =>
        /\ DecEq[ret.max_rotating_credit, HelocCeiling(DecOf[65, 2])]
        /\ DecEq[ret.max_total_borrowing, HelocCeiling(DecOf[80, 2])]
        /\ DecEq[ret.total_equity, DecSub[arg.current_property_value, HelocDebt]]
        /\ DecEq[ret.available_equity_at_rotating,
                 DecMax[Zero, DecSub[HelocCeiling(DecOf[65, 2]), HelocDebt]]]
        /\ DecEq[ret.available_equity_at_total,
                 DecMax[Zero, DecSub[HelocCeiling(DecOf[80, 2]), HelocDebt]]]
        /\ ret.can_access_rotating = DecLe[HelocDebt, HelocCeiling(DecOf[65, 2])]
        /\ DecEq[DecMul[ret.current_ltv, arg.current_property_value],
                 IF DecGt[arg.current_property_value, Zero] THEN HelocDebt ELSE Zero]

\* C10: calculate_heloc_capacity reports its reference rounded to the nearest
\* cent: 0.65 and 0.80 of the value, value - debt, max(0, ceiling - debt) at each
\* ceiling; can_access_rotating is debt <= 0.65 * value; current_ltv is
\* debt / value to the nearest 0.0001, and 0 when the value is 0; the scenario
\* 500000 / 300000 / 0 gives 325000, 25000 and true.
C10_HelocMatchesRoundedReference ==
    HelocCall =>
        /\ IsRoundedToCents(ret.max_rotating_credit, HelocCeiling(DecOf[65, 2]))
        /\ IsRoundedToCents(ret.max_total_borrowing, HelocCeiling(DecOf[80, 2]))
        /\ IsRoundedToCents(ret.total_equity, DecSub[arg.current_property_value, HelocDebt])
        /\ IsRoundedToCents(ret.available_equity_at_rotating,
                            DecMax[Zero, DecSub[HelocCeiling(DecOf[65, 2]), HelocDebt]])
        /\ IsRoundedToCents(ret.available_equity_at_total,
                            DecMax[Zero, DecSub[HelocCeiling(DecOf[80, 2]), HelocDebt]])
        /\ ret.can_access_rotating = DecLe[HelocDebt, HelocCeiling(DecOf[65, 2])]
        /\ ret.current_ltv.e = 4
        /\ IF DecGt[arg.current_property_value, Zero]
           THEN DecLe[DecAbs(DecSub[DecMul[ret.current_ltv, arg.current_property_value],
                                    HelocDebt]),
                      DecMul[DecOf[5, 5], arg.current_property_value]]
           ELSE DecEq[ret.current_ltv, Zero]
        /\ (/\ arg.current_property_value = DecOf[500000, 0]
            /\ arg.current_mortgage_balance = DecOf[300000, 0]
            /\ arg.current_heloc_balance = DecOf[0, 0])
           => /\ DecEq[ret.max_rotating_credit, DecOf[325000, 0]]
              /\ DecEq[ret.available_equity_at_rotating, DecOf[25000, 0]]
              /\ ret.can_access_rotating

\* a value whose 65% ceiling has more than two decimals: 0.65 * 100.01 = 65.0065
\* is reported as 65.01
C10_Witness ==
    /\ HelocCall
    /\ arg.current_property_value = DecOf[10001, 2]
    /\ arg.current_mortgage_balance = DecOf[0, 0]
    /\ arg.current_heloc_balance = DecOf[0, 0]
    /\ ret.max_rotating_credit = DecOf[6501, 2]
    /\ ret.available_equity_at_rotating = DecOf[6501, 2]

\* C24: for every HelocCapacityInput recommended_heloc_limit equals
\* available_equity_at_rotating: when the debt exceeds the 65% ceiling
\* (can_access_rotating false) both are 0, and when it does not both are the
\* ceiling less the debt, in cents.
C24_RecommendedLimitIsRotatingEquity ==
    HelocCall =>
        /\ DecEq[ret.recommended_heloc_limit, ret.available_equity_at_rotating]
        /\ ret.can_access_rotating <=> DecLe[HelocDebt, HelocCeiling(DecOf[65, 2])]
        /\ IF ret.can_access_rotating
           THEN IsRoundedToCents(ret.recommended_heloc_limit,
                                 DecSub[HelocCeiling(DecOf[65, 2]), HelocDebt])
           ELSE DecEq[ret.recommended_heloc_limit, Zero]

\* a debt of 350000 on a value of 500000, above the rotating ceiling of 325000:
\* no access, both amounts are 0, while 50000 remain at the total ceiling
C24_Witness ==
    /\ HelocCall
    /\ arg.current_property_value = DecOf[500000, 0]
    /\ arg.current_mortgage_balance = DecOf[325000, 0]
    /\ arg.current_heloc_balance = DecOf[25000, 0]
    /\ ~ret.can_access_rotating
    /\ DecEq[ret.recommended_heloc_limit, Zero]
    /\ DecEq[ret.available_equity_at_rotating, Zero]
    /\ DecGt[ret.available_equity_at_total, Zero]

\* the rounding the statement of C14 names: to cents, a tie to the higher cent
HalfUpCents(x) == DecQuantize[x, 2, "ROUND_HALF_UP"]

\* C14: every monetary field of a result record is the exact computed value
\* rounded to 2 decimals with round-half-up, and the LTV ratios are rounded to
\* 4 decimals; stated for the record of calculate_heloc_capacity.
C14_MonetaryFieldsRoundedHalfUp ==
    HelocCall =>
        /\ ret.max_rotating_credit = HalfUpCents(HelocCeiling(DecOf[65, 2]))
        /\ ret.max_total_borrowing = HalfUpCents(HelocCeiling(DecOf[80, 2]))
        /\ ret.total_equity = HalfUpCents(DecSub[arg.current_property_value, HelocDebt])
        /\ ret.available_equity_at_rotating
               = HalfUpCents(DecMax[Zero, DecSub[HelocCeiling(DecOf[65, 2]), HelocDebt]])
        /\ ret.available_equity_at_total
               = HalfUpCents(DecMax[Zero, DecSub[HelocCeiling(DecOf[80, 2]), HelocDebt]])
        /\ ret.current_ltv.e = 4
        /\ ret.after_heloc_ltv.e = 4

(***************************************************************************)
(* mortgage.py.  The two float computations (the root of the monthly rate, *)
(* the power of the annuity formula) are tabulated for the rates of the    *)
(* model: each entry is the double the code computes, written as the       *)
(* Decimal that Decimal(str(x)) gives.                                     *)
(***************************************************************************)
\* Decimal(str(monthly_rate)) for each positive rate of the model, where
\* monthly_rate = (1 + r / 2) ** (1 / 6) - 1 in double precision
MonthlyRateTable ==
    { <<DecOf[500, 4], Dec[1, <<2345, 5144, 1546, 1239, 4>>, 19]>>,
      <<DecOf[525, 4], Dec[1, <<1128, 6470, 9020, 4327>>, 18]>>,
      <<DecOf[550, 4], Dec[1, <<7003, 1827, 6817, 4531>>, 18]>>,
      <<DecOf[695, 4], Dec[1, <<8765, 8998, 5462, 5709>>, 18]>>,
      <<DecOf[750, 4], Dec[1, <<2644, 9029, 2391, 1545, 6>>, 19]>> }

\* monthly_rate * (1 + monthly_rate) ** n / ((1 + monthly_rate) ** n - 1) in double
\* precision, for each nominal rate and n = 12 * years, years = 1..32
AnnuityFactorTable ==
    { <<DecOf[500, 4], << Dec[1, <<9538, 358, 3974, 8558>>, 17],
                        Dec[1, <<9105, 2731, 8418, 4384>>, 17],
                        Dec[1, <<2504, 3434, 8693, 9947, 2>>, 18],
                        Dec[1, <<4457, 7438, 617, 3006, 2>>, 18],
                        Dec[1, <<8607, 1977, 7392, 8847, 1>>, 18],
                        Dec[1, <<7592, 2558, 1468, 6081, 1>>, 18],
                        Dec[1, <<9641, 1621, 8159, 4109, 1>>, 18],
                        Dec[1, <<5186, 4906, 5101, 2635, 1>>, 18],
                        Dec[1, <<4286, 538, 5409, 1492, 1>>, 18],
                        Dec[1, <<7967, 4930, 4934, 581, 1>>, 18],
                        Dec[1, <<9056, 5699, 1024, 9839>>, 18],
                        Dec[1, <<4396, 8331, 1897, 9223>>, 18],
                        Dec[1, <<4677, 3032, 5540, 8704>>, 18],
                        Dec[1, <<6497, 1669, 3360, 8262>>, 18],
                        Dec[1, <<98, 608, 1238, 788>>, 17],
                        Dec[1, <<7144, 3397, 7860, 7549>>, 18],
                        Dec[1, <<8085, 793, 2048, 7259>>, 18],
                        Dec[1, <<8245, 5408, 6685, 7002>>, 18],
                        Dec[1, <<2047, 9135, 7877, 6774>>, 18],
                        Dec[1, <<2071, 2047, 2503, 6571>>, 18],
                        Dec[1, <<5511, 4922, 5647, 6388>>, 18],
                        Dec[1, <<4083, 6593, 8739, 6223>>, 18],
                        Dec[1, <<8167, 7259, 8172, 6074>>, 18],
                        Dec[1, <<8337, 8520, 4269, 5939>>, 18],
                        Dec[1, <<155, 5037, 498, 5816>>, 18],
                        Dec[1, <<5655, 6874, 8659, 7032, 5>>, 19],
                        Dec[1, <<889, 2051, 9449, 5599>>, 18],
                        Dec[1, <<4025, 3763, 254, 5050, 5>>, 19],
                        Dec[1, <<6864, 1847, 5779, 5417>>, 18],
                        Dec[1, <<7556, 8808, 9067, 5336>>, 18],
                        Dec[1, <<319, 8625, 3232, 5262>>, 18],
                        Dec[1, <<5389, 7948, 2445, 5193>>, 18] >>>>, <<DecOf[525, 4], << Dec[1, <<5716, 3084, 6173, 8569>>, 17],
                                                                                       Dec[1, <<1756, 7843, 913, 3958, 4>>, 18],
                                                                                       Dec[1, <<4675, 6831, 7843, 3005>>, 17],
                                                                                       Dec[1, <<3307, 2591, 420, 3117, 2>>, 18],
                                                                                       Dec[1, <<5358, 8764, 47, 8960, 1>>, 18],
                                                                                       Dec[1, <<3516, 8011, 4834, 1619>>, 17],
                                                                                       Dec[1, <<4484, 985, 19, 4225, 1>>, 18],
                                                                                       Dec[1, <<1533, 1224, 2386, 2752, 1>>, 18],
                                                                                       Dec[1, <<8204, 1378, 8386, 1610, 1>>, 18],
                                                                                       Dec[1, <<7253, 5137, 3762, 701, 1>>, 18],
                                                                                       Dec[1, <<1015, 6198, 5789, 9960>>, 18],
                                                                                       Dec[1, <<8961, 1974, 2635, 9346>>, 18],
                                                                                       Dec[1, <<6069, 8148, 2247, 8829>>, 18],
                                                                                       Dec[1, <<9795, 8622, 6006, 8388>>, 18],
                                                                                       Dec[1, <<6139, 5691, 912, 8009>>, 18],
                                                                                       Dec[1, <<4678, 7812, 2204, 7679>>, 18],
                                                                                       Dec[1, <<5422, 3024, 2116, 7390>>, 18],
                                                                                       Dec[1, <<7483, 1358, 2375, 7135>>, 18],
                                                                                       Dec[1, <<5615, 4990, 744, 9089, 6>>, 19],
                                                                                       Dec[1, <<3251, 5647, 9081, 6706>>, 18],
                                                                                       Dec[1, <<1583, 9515, 7472, 6525>>, 18],
                                                                                       Dec[1, <<3924, 7848, 5668, 6362>>, 18],
                                                                                       Dec[1, <<8307, 1400, 54, 6215>>, 18],
                                                                                       Dec[1, <<2349, 8968, 944, 6081>>, 18],
                                                                                       Dec[1, <<528, 8298, 1801, 5959>>, 18],
                                                                                       Dec[1, <<2284, 670, 8626, 5847>>, 18],
                                                                                       Dec[1, <<594, 8931, 9488, 5745>>, 18],
                                                                                       Dec[1, <<5315, 1101, 1623, 6524, 5>>, 19],
                                                                                       Dec[1, <<4188, 404, 3826, 5566>>, 18],
                                                                                       Dec[1, <<7718, 1170, 833, 5487>>, 18],
                                                                                       Dec[1, <<2964, 5973, 5208, 4138, 5>>, 19],
                                                                                       Dec[1, <<5904, 2805, 1057, 5346>>, 18] >>>>,
      <<DecOf[550, 4], << Dec[1, <<2996, 7166, 8340, 8580>>, 17],
                        Dec[1, <<9994, 7174, 8178, 4067, 4>>, 18],
                        Dec[1, <<7818, 4744, 9533, 167, 3>>, 18],
                        Dec[1, <<4802, 6049, 2383, 3228, 2>>, 18],
                        Dec[1, <<1405, 7591, 5663, 9072, 1>>, 18],
                        Dec[1, <<5072, 2941, 8979, 6308, 1>>, 18],
                        Dec[1, <<5034, 2334, 6413, 4340, 1>>, 18],
                        Dec[1, <<7191, 665, 4978, 2869, 1>>, 18],
                        Dec[1, <<1166, 681, 7433, 1729, 1>>, 18],
                        Dec[1, <<5685, 2709, 9411, 821, 1>>, 18],
                        Dec[1, <<5125, 5852, 8113, 82, 1>>, 18],
                        Dec[1, <<7767, 8933, 1655, 9470>>, 18],
                        Dec[1, <<3893, 2863, 7948, 8954>>, 18],
                        Dec[1, <<5525, 3694, 8340, 8515>>, 18],
                        Dec[1, <<1807, 4703, 9808, 8137>>, 18],
                        Dec[1, <<9592, 6653, 7572, 7809>>, 18],
                        Dec[1, <<3334, 9927, 3848, 7522>>, 18],
                        Dec[1, <<1472, 9437, 350, 7269>>, 18],
                        Dec[1, <<5671, 9192, 3158, 7044>>, 18],
                        Dec[1, <<1555, 8616, 9128, 6843>>, 18],
                        Dec[1, <<4429, 20, 3327, 6664>>, 18],
                        Dec[1, <<7062, 4231, 2716, 650>>, 17],
                        Dec[1, <<8324, 1658, 7017, 6356>>, 18],
                        Dec[1, <<6935, 9481, 3193, 6224>>, 18],
                        Dec[1, <<405, 6640, 1482, 1039, 6>>, 19],
                        Dec[1, <<155, 5308, 8747, 9940, 5>>, 19],
                        Dec[1, <<3726, 7437, 6438, 5893>>, 18],
                        Dec[1, <<2637, 8028, 5606, 5801>>, 18],
                        Dec[1, <<1189, 3693, 6955, 571>>, 17],
                        Dec[1, <<6622, 9509, 627, 5639>>, 18],
                        Dec[1, <<9865, 8330, 2162, 5567>>, 18],
                        Dec[1, <<3462, 7092, 8322, 5500>>, 18] >>>>, <<DecOf[750, 4], << Dec[1, <<5346, 2212, 4530, 8670>>, 17],
                                                                                       Dec[1, <<217, 6349, 7513, 4494>>, 17],
                                                                                       Dec[1, <<8116, 499, 3626, 3105>>, 17],
                                                                                       Dec[1, <<1094, 6816, 4697, 4125, 2>>, 18],
                                                                                       Dec[1, <<4508, 1668, 3549, 1998>>, 17],
                                                                                       Dec[1, <<7993, 1788, 6858, 7234, 1>>, 18],
                                                                                       Dec[1, <<7934, 1849, 7921, 5281, 1>>, 18],
                                                                                       Dec[1, <<6682, 7348, 6314, 1382>>, 17],
                                                                                       Dec[1, <<5261, 4472, 2382, 1270>>, 17],
                                                                                       Dec[1, <<8564, 1406, 4653, 1810, 1>>, 18],
                                                                                       Dec[1, <<116, 7687, 7219, 1108>>, 17],
                                                                                       Dec[1, <<5713, 8683, 4111, 490, 1>>, 18],
                                                                                       Dec[1, <<839, 8487, 7952, 9990>>, 18],
                                                                                       Dec[1, <<7492, 3244, 4789, 9567>>, 18],
                                                                                       Dec[1, <<652, 5111, 1366, 9205>>, 18],
                                                                                       Dec[1, <<9991, 3506, 2709, 8892>>, 18],
                                                                                       Dec[1, <<1698, 8366, 865, 8620>>, 18],
                                                                                       Dec[1, <<4012, 6194, 7402, 8381>>, 18],
                                                                                       Dec[1, <<7362, 4630, 8270, 8171>>, 18],
                                                                                       Dec[1, <<7182, 923, 210, 7986>>, 18],
                                                                                       Dec[1, <<9479, 9580, 8184, 7820>>, 18],
                                                                                       Dec[1, <<1426, 4163, 3351, 767>>, 17],
                                                                                       Dec[1, <<1995, 4486, 2492, 7541>>, 18],
                                                                                       Dec[1, <<7143, 1724, 5355, 7422>>, 18],
                                                                                       Dec[1, <<6257, 6753, 5491, 7315>>, 18],
                                                                                       Dec[1, <<3776, 1536, 8840, 7218>>, 18],
                                                                                       Dec[1, <<9272, 9759, 3416, 7131>>, 18],
                                                                                       Dec[1, <<4525, 8276, 8946, 7051>>, 18],
                                                                                       Dec[1, <<267, 3397, 6569, 6979>>, 18],
                                                                                       Dec[1, <<7691, 3531, 8604, 6913>>, 18],
                                                                                       Dec[1, <<5605, 5741, 8362, 6853>>, 18],
                                                                                       Dec[1, <<6533, 6879, 9991, 6798>>, 18] >>>> }

convert_to_monthly_effective_rate(nominal_annual_rate) ==
    IF DecEq[nominal_annual_rate, Zero] THEN DecOf[0, 1]
    ELSE (CHOOSE t \in MonthlyRateTable : DecEq[t[1], nominal_annual_rate])[2]

\* numerator / denominator of calculate_monthly_mortgage_payment
AnnuityFactor(nominal_annual_rate, amortization_years) ==
    (CHOOSE t \in AnnuityFactorTable : DecEq[t[1], nominal_annual_rate])[2][amortization_years]

\* a faulty variant (mutation test of C6): the zero-rate branch divides by the
\* number of years instead of the number of months
calculate_monthly_mortgage_payment_PerYear(principal, nominal_annual_rate, amortization_years) ==
    IF DecLe[principal, Zero] THEN Zero
    ELSE IF DecLe[nominal_annual_rate, Zero]
    THEN DecQuantize[DecDiv[principal, DecOf[amortization_years, 0]], 2, "ROUND_HALF_UP"]
    ELSE DecQuantize[DecMul[principal, AnnuityFactor(nominal_annual_rate, amortization_years)],
                     2, "ROUND_HALF_UP"]

calculate_monthly_mortgage_payment(principal, nominal_annual_rate, amortization_years) ==
    IF DecLe[principal, Zero] THEN Zero
    ELSE IF DecLe[nominal_annual_rate, Zero]
    THEN DecQuantize[DecDiv[principal, DecOf[amortization_years * 12, 0]], 2, "ROUND_HALF_UP"]
    ELSE DecQuantize[DecMul[principal, AnnuityFactor(nominal_annual_rate, amortization_years)],
                     2, "ROUND_HALF_UP"]

calculate_interest_only_payment(principal, nominal_annual_rate) ==
    IF DecLe[principal, Zero] \/ DecLe[nominal_annual_rate, Zero] THEN Zero
    ELSE DecQuantize[DecMul[principal, convert_to_monthly_effective_rate(nominal_annual_rate)],
                     2, "ROUND_HALF_UP"]

\* faulty variant of the floor: 5.5% instead of 5.25% (mutation test of C18)
calculate_stress_test_rate_HighFloor(contract_rate) ==
    DecMax[DecAdd[contract_rate, DecOf[2, 2]], DecOf[55, 3]]

calculate_stress_test_rate(contract_rate) ==
    DecMax[DecAdd[contract_rate, DecOf[2, 2]], DecOf[525, 4]]

\* faulty variant of the undefined ratio: the sentinel of an infinite return
\* instead of 0 (mutation test of C21)
calculate_dcr_Sentinel(annual_noi, annual_debt_service) ==
    IF DecLe[annual_debt_service, Zero] THEN DecOf[999999, 0]
    ELSE DecQuantize[DecDiv[annual_noi, annual_debt_service], 2, "ROUND_HALF_UP"]

calculate_dcr(annual_noi, annual_debt_service) ==
    IF DecLe[annual_debt_service, Zero] THEN Zero
    ELSE DecQuantize[DecDiv[annual_noi, annual_debt_service], 2, "ROUND_HALF_UP"]

\* the errors of a division by zero: of floats, and of Decimals (0 / 0 is
\* InvalidOperation, x / 0 is DivisionByZero)
ZeroDivisionError == [raised |-> "ZeroDivisionError"]

DivisionByZero == [raised |-> "decimal.DivisionByZero"]

InvalidOperation == [raised |-> "decimal.InvalidOperation"]

RECURSIVE BalanceLoop(_, _, _, _)
\* for _ in range(months_elapsed): ... of calculate_remaining_balance
BalanceLoop(balance, monthly_payment, monthly_rate, months_left) ==
    IF months_left = 0 THEN DecQuantize[balance, 2, "ROUND_HALF_UP"]
    ELSE With[[interest_portion \in {DecMul[balance, monthly_rate]} |->
         With[[principal_portion \in {DecSub[monthly_payment, interest_portion]} |->
         With[[next_balance \in {DecSub[balance, principal_portion]} |->
            IF DecLt[next_balance, Zero] THEN Zero
            ELSE BalanceLoop(next_balance, monthly_payment, monthly_rate, months_left - 1)]]]]]]

calculate_remaining_balance(principal, nominal_annual_rate, amortization_years, months_elapsed) ==
    BalanceLoop(principal,
                calculate_monthly_mortgage_payment(principal, nominal_annual_rate,
                                                   amortization_years),
                convert_to_monthly_effective_rate(nominal_annual_rate),
                months_elapsed)

\* float(max_monthly_payment) * (one_plus_r_pow_n - 1) / (monthly_rate * one_plus_r_pow_n):
\* the payment divided by the annuity factor of calculate_monthly_mortgage_payment;
\* a float division by 0.0 when the monthly rate is 0.0
calculate_max_mortgage_from_dcr(annual_noi, target_dcr, nominal_rate, amort_years) ==
    IF target_dcr.c = <<>>
    THEN (IF annual_noi.c = <<>> THEN InvalidOperation ELSE DivisionByZero)
    ELSE With[[max_annual_debt_service \in {DecDiv[annual_noi, target_dcr]} |->
         With[[max_monthly_payment \in {DecDiv[max_annual_debt_service, DecOf[12, 0]]} |->
            IF convert_to_monthly_effective_rate(nominal_rate).c = <<>>
            THEN ZeroDivisionError
            ELSE DecQuantize[DecDiv[max_monthly_payment,
                                    AnnuityFactor(nominal_rate, amort_years)],
                             0, "ROUND_DOWN"]]]]]

MaxYears == 30

MaxMonths == 3

MortgagePrincipals ==
    {DecOf[-1, 0], DecOf[0, 0], DecOf[1, 2], DecOf[6, 2], DecOf[1, 0], DecOf[360, 0],
     DecOf[100000, 0], DecOf[250000, 0], DecOf[12345678, 2], DecOf[9999999, 2]}

MortgageRates == {DecOf[0, 0], DecOf[5, 2], DecOf[55, 3]}

DcrAmounts == {DecOf[-1200, 0], DecOf[0, 0], DecOf[1, 2], DecOf[12000, 0], DecOf[1500000, 2]}

InitMortgage ==
    /\ pc = "call"
    /\ ret = None
    /\ \/ /\ fn = "calculate_monthly_mortgage_payment"
          /\ arg \in [principal : MortgagePrincipals, nominal_annual_rate : MortgageRates,
                      amortization_years : 1..MaxYears]
       \/ /\ fn = "calculate_interest_only_payment"
          /\ arg \in [principal : MortgagePrincipals, nominal_annual_rate : MortgageRates]
       \/ /\ fn = "calculate_stress_test_rate"
          /\ arg \in [contract_rate : MortgageRates \cup {DecOf[325, 4], DecOf[2, 1]}]
       \/ /\ fn = "calculate_dcr"
          /\ arg \in [annual_noi : DcrAmounts, annual_debt_service : DcrAmounts]
       \/ /\ fn = "calculate_remaining_balance"
          /\ arg \in [principal : MortgagePrincipals, nominal_annual_rate : MortgageRates,
                      amortization_years : {1, 25}, months_elapsed : 0..MaxMonths]
       \/ /\ fn = "calculate_max_mortgage_from_dcr"
          /\ arg \in [annual_noi : DcrAmounts,
                      target_dcr : {DecOf[0, 0], DecOf[1, 0], DecOf[125, 2]},
                      nominal_rate : MortgageRates, amort_years : {1, 25, MaxYears}]

Run_calculate_monthly_mortgage_payment ==
    /\ pc = "call" /\ fn = "calculate_monthly_mortgage_payment"
    /\ ret' = calculate_monthly_mortgage_payment(arg.principal, arg.nominal_annual_rate,
                                                 arg.amortization_years)
    /\ pc' = "done"
    /\ UNCHANGED <<fn, arg>>

Run_calculate_interest_only_payment ==
    /\ pc = "call" /\ fn = "calculate_interest_only_payment"
    /\ ret' = calculate_interest_only_payment(arg.principal, arg.nominal_annual_rate)
    /\ pc' = "done"
    /\ UNCHANGED <<fn, arg>>

Run_calculate_stress_test_rate ==
    /\ pc = "call" /\ fn = "calculate_stress_test_rate"
    /\ ret' = calculate_stress_test_rate(arg.contract_rate)
    /\ pc' = "done"
    /\ UNCHANGED <<fn, arg>>

Run_calculate_dcr ==
    /\ pc = "call" /\ fn = "calculate_dcr"
    /\ ret' = calculate_dcr(arg.annual_noi, arg.annual_debt_service)
    /\ pc' = "done"
    /\ UNCHANGED <<fn, arg>>

Run_calculate_remaining_balance ==
    /\ pc = "call" /\ fn = "calculate_remaining_balance"
    /\ ret' = calculate_remaining_balance(arg.principal, arg.nominal_annual_rate,
                                          arg.amortization_years, arg.months_elapsed)
    /\ pc' = "done"
    /\ UNCHANGED <<fn, arg>>

Run_calculate_max_mortgage_from_dcr ==
    /\ pc = "call" /\ fn = "calculate_max_mortgage_from_dcr"
    /\ ret' = calculate_max_mortgage_from_dcr(arg.annual_noi, arg.target_dcr,
                                              arg.nominal_rate, arg.amort_years)
    /\ pc' = "done"
    /\ UNCHANGED <<fn, arg>>

NextMortgage ==
    \/ Run_calculate_monthly_mortgage_payment
    \/ Run_calculate_interest_only_payment
    \/ Run_calculate_stress_test_rate
    \/ Run_calculate_dcr
    \/ Run_calculate_remaining_balance
    \/ Run_calculate_max_mortgage_from_dcr

SpecMortgage == InitMortgage /\ [][NextMortgage]_vars

\* a call of calculate_monthly_mortgage_payment(P, 0, n) with P > 0 has returned
ZeroRatePaymentCall ==
    /\ pc = "done" /\ fn = "calculate_monthly_mortgage_payment"
    /\ DecGt[arg.principal, Zero]
    /\ DecEq[arg.nominal_annual_rate, Zero]

\* C6 as stated: the zero-rate payment times n * 12 gives back P
C6_ZeroRatePaymentExact ==
    ZeroRatePaymentCall =>
        DecEq[DecMul[ret, DecOf[arg.amortization_years * 12, 0]], arg.principal]

\* C6: the zero-rate payment is P / (n * 12) rounded half-up to cents: with
\* N = n * 12 months, (payment - 0.005) * N <= P < (payment + 0.005) * N.
C6_ZeroRatePaymentRounded ==
    ZeroRatePaymentCall =>
        /\ ret.e = 2
        /\ DecLe[DecMul[DecSub[ret, DecOf[5, 3]], DecOf[arg.amortization_years * 12, 0]],
                 arg.principal]
        /\ DecLt[arg.principal,
                 DecMul[DecAdd[ret, DecOf[5, 3]], DecOf[arg.amortization_years * 12, 0]]]

\* 100000 over 25 years at rate 0: 333.333... is paid as 333.33
C6_Witness ==
    /\ ZeroRatePaymentCall
    /\ arg.principal = DecOf[100000, 0]
    /\ arg.amortization_years = 25
    /\ ret = DecOf[33333, 2]

\* the outcome r of a call is an exception
Raised(r) == "raised" \in DOMAIN r

\* the argument named field is given and is zero
ZeroArgument(field) == field \in DOMAIN arg /\ arg[field].c = <<>>

\* a call of a mortgage.py function with a zero rate, principal or debt service
\* (and a target DCR that is not zero) has ended
DegenerateMortgageCall ==
    /\ pc = "done"
    /\ fn \in {"calculate_monthly_mortgage_payment", "calculate_interest_only_payment",
               "calculate_dcr", "calculate_remaining_balance",
               "calculate_max_mortgage_from_dcr"}
    /\ \/ ZeroArgument("nominal_annual_rate") \/ ZeroArgument("nominal_rate")
       \/ ZeroArgument("principal") \/ ZeroArgument("annual_debt_service")
    /\ ~ZeroArgument("target_dcr")

\* C12: no mortgage calculation raises on a degenerate input (zero nominal
\* rate, zero principal or zero debt service): each returns a value.
C12_DegenerateInputsNeverRaise ==
    DegenerateMortgageCall => ~Raised(ret)

(***************************************************************************)
(* brrrr_engine.py: calculate_brrrr, phase by phase.  Each phase returns   *)
(* its result record together with the local variables later phases read.  *)
(* A warning is modelled by its fixed text, without the formatted numbers. *)
(***************************************************************************)
BSIF_MIN_DCR_COMMERCIAL == DecOf[125, 2]

\* faulty variant of the test: the premium is never taken as present
\* (mutation test of C17)
Truthy_Never(x) == FALSE

\* if x: for x a Decimal or None
Truthy(x) == x # None /\ x.c # <<>>

Twelve == DecOf[12, 0]

Hundred == DecOf[100, 0]

\* PHASE 1: ACQUISITION (BUY)
brrrr_acquisition(input_data) ==
    With[[down_payment_amount \in {DecMul[input_data.purchase_price, input_data.down_payment_percent]} |->
    With[[transfer_tax \in {calculate_transfer_tax(input_data.purchase_price, input_data.municipality)} |->
    With[[loan_amount \in {DecSub[input_data.purchase_price, down_payment_amount]} |->
    With[[cmhc \in {
        calculate_cmhc_premium(loan_amount, input_data.down_payment_percent, input_data.is_owner_occupied, input_data.total_units, input_data.purchase_price)
    } |->
    With[[initial_mortgage_amount \in {IF Truthy(cmhc.premium_amount) THEN DecAdd[loan_amount, cmhc.premium_amount]
        ELSE loan_amount} |->
    With[[initial_monthly_payment \in {
        calculate_monthly_mortgage_payment(initial_mortgage_amount, input_data.mortgage_rate, input_data.amortization_years)
    } |->
    With[[total_closing_costs \in {DecAdd[DecAdd[DecAdd[transfer_tax, input_data.notary_fees],
                      input_data.inspection_fees], input_data.other_closing_costs]} |->
    With[[total_cash_at_acquisition \in {DecAdd[down_payment_amount, total_closing_costs]} |->
        [warnings |-> cmhc.notes,
         initial_mortgage_amount |-> initial_mortgage_amount,
         initial_monthly_payment |-> initial_monthly_payment,
         total_cash_at_acquisition |-> total_cash_at_acquisition,
         acquisition |->
            [purchase_price |-> input_data.purchase_price,
             down_payment_amount |-> Cents(down_payment_amount),
             down_payment_percent |-> input_data.down_payment_percent,
             transfer_tax |-> transfer_tax,
             notary_fees |-> input_data.notary_fees,
             inspection_fees |-> input_data.inspection_fees,
             other_closing_costs |-> input_data.other_closing_costs,
             cmhc_premium |-> cmhc.premium_amount,
             cmhc_premium_percent |-> cmhc.premium_rate,
             total_closing_costs |-> Cents(total_closing_costs),
             initial_mortgage_amount |-> Cents(initial_mortgage_amount),
             initial_monthly_payment |-> initial_monthly_payment,
             total_cash_at_acquisition |-> Cents(total_cash_at_acquisition)]]]]]]]]]]]]]]]]]]

\* PHASE 2: RENOVATION (REHAB)
brrrr_renovation(input_data, initial_monthly_payment) ==
    With[[contingency_amount \in {DecMul[input_data.renovation_budget,
               DecDiv[input_data.renovation_contingency_percent, Hundred]]} |->
    With[[total_reno_budget \in {DecAdd[input_data.renovation_budget, contingency_amount]} |->
    With[[carry_before_heloc \in {DecAdd[DecAdd[DecAdd[initial_monthly_payment,
                             DecDiv[input_data.municipal_taxes, Twelve]],
                      DecDiv[input_data.school_taxes, Twelve]],
               DecDiv[input_data.insurance_annual, Twelve]]} |->
    With[[monthly_carry_cost \in {IF input_data.reno_financing_type = "HELOC" /\ Truthy(input_data.heloc_rate_for_reno)
        THEN DecAdd[carry_before_heloc,
                    calculate_interest_only_payment(DecDiv[total_reno_budget, DecOf[2, 0]],
                                                    input_data.heloc_rate_for_reno)]
        ELSE carry_before_heloc} |->
    With[[total_carry_cost \in {
        DecMul[monthly_carry_cost, DecOf[input_data.renovation_duration_months, 0]]
    } |->
        [total_reno_budget |-> total_reno_budget,
         total_carry_cost |-> total_carry_cost,
         renovation |->
            [budget_base |-> input_data.renovation_budget,
             contingency |-> Cents(contingency_amount),
             total_budget |-> Cents(total_reno_budget),
             duration_months |-> input_data.renovation_duration_months,
             financing_type |-> input_data.reno_financing_type,
             monthly_carry_cost |-> Cents(monthly_carry_cost),
             total_carry_cost |-> Cents(total_carry_cost)]]]]]]]]]]]]

\* PHASE 3: LOCATION (RENT)
brrrr_rental(input_data) ==
    With[[vacancy_loss \in {DecMul[input_data.projected_monthly_rent,
               DecDiv[input_data.vacancy_rate_percent, Hundred]]} |->
    With[[effective_gross_income \in {DecSub[input_data.projected_monthly_rent, vacancy_loss]} |->
    With[[monthly_muni_tax \in {DecDiv[input_data.municipal_taxes, Twelve]} |->
    With[[monthly_school_tax \in {DecDiv[input_data.school_taxes, Twelve]} |->
    With[[monthly_insurance_op \in {DecDiv[input_data.insurance_annual, Twelve]} |->
    With[[monthly_maintenance \in {
        DecMul[effective_gross_income, DecDiv[input_data.maintenance_percent, Hundred]]
    } |->
    With[[monthly_management \in {
        DecMul[effective_gross_income, DecDiv[input_data.management_percent, Hundred]]
    } |->
    With[[total_operating_expenses \in {DecAdd[DecAdd[DecAdd[DecAdd[DecAdd[monthly_muni_tax, monthly_school_tax],
                                    monthly_insurance_op],
                             monthly_maintenance],
                      monthly_management],
               input_data.utilities_monthly]} |->
    With[[monthly_noi \in {DecSub[effective_gross_income, total_operating_expenses]} |->
    With[[annual_noi \in {DecMul[monthly_noi, Twelve]} |->
        [monthly_noi |-> monthly_noi,
         annual_noi |-> annual_noi,
         rental |->
            [gross_monthly_rent |-> input_data.projected_monthly_rent,
             effective_gross_income |-> Cents(effective_gross_income),
             vacancy_loss |-> Cents(vacancy_loss),
             municipal_taxes |-> Cents(monthly_muni_tax),
             school_taxes |-> Cents(monthly_school_tax),
             insurance |-> Cents(monthly_insurance_op),
             maintenance |-> Cents(monthly_maintenance),
             management |-> Cents(monthly_management),
             utilities |-> input_data.utilities_monthly,
             total_operating_expenses |-> Cents(total_operating_expenses),
             monthly_noi |-> Cents(monthly_noi),
             annual_noi |-> Cents(annual_noi)]]]]]]]]]]]]]]]]]]]]]]

\* PHASE 4: REFINANCEMENT (REFINANCE)
brrrr_refinance(input_data, initial_mortgage_amount, total_reno_budget) ==
    With[[max_total_borrowing \in {DecMul[input_data.after_repair_value, BSIF_REFINANCE_LTV_MAX]} |->
    With[[heloc_portion \in {DecMin[max_total_borrowing,
               DecMul[input_data.after_repair_value, BSIF_HELOC_ROTATING_LTV_MAX]]} |->
    With[[amortized_portion \in {DecSub[max_total_borrowing, heloc_portion]} |->
    With[[monthly_heloc_payment \in {
        calculate_interest_only_payment(heloc_portion, input_data.refinance_rate)
    } |->
    With[[monthly_mortgage_payment \in {IF DecGt[amortized_portion, Zero]
        THEN calculate_monthly_mortgage_payment(amortized_portion, input_data.refinance_rate, input_data.refinance_amort_years)
        ELSE Zero} |->
    With[[total_monthly_debt_service \in {DecAdd[monthly_heloc_payment, monthly_mortgage_payment]} |->
    With[[total_refi_costs \in {DecAdd[DecOf[400, 0], DecOf[1200, 0]]} |->
    With[[gross_cash_out \in {
        DecSub[max_total_borrowing, DecAdd[initial_mortgage_amount, total_reno_budget]]
    } |->
    With[[net_cash_out \in {DecSub[gross_cash_out, total_refi_costs]} |->
        [new_mortgage_amount |-> max_total_borrowing,
         total_monthly_debt_service |-> total_monthly_debt_service,
         net_cash_out |-> net_cash_out,
         refinance |->
            [after_repair_value |-> input_data.after_repair_value,
             max_ltv_total |-> BSIF_REFINANCE_LTV_MAX,
             max_ltv_rotating |-> BSIF_HELOC_ROTATING_LTV_MAX,
             new_mortgage_amount |-> Cents(max_total_borrowing),
             heloc_portion_amount |-> Cents(heloc_portion),
             amortized_portion_amount |-> Cents(amortized_portion),
             monthly_mortgage_payment |-> monthly_mortgage_payment,
             monthly_heloc_payment |-> monthly_heloc_payment,
             total_monthly_debt_service |-> Cents(total_monthly_debt_service),
             appraisal_fee |-> DecOf[400, 0],
             legal_fees |-> DecOf[1200, 0],
             total_refinance_costs |-> total_refi_costs,
             gross_cash_out |-> Cents(gross_cash_out),
             net_cash_out |-> Cents(net_cash_out)]]]]]]]]]]]]]]]]]]]]

\* faulty variant of the conditional append: the test is dropped (mutation test
\* of C22)
AppendIf_Always(cond, w) == <<w>>

\* warnings.append(w) if cond
AppendIf(cond, w) == IF cond THEN <<w>> ELSE <<>>

\* faulty variant of the clamp: the amount is kept as it is (mutation test of C20)
max_zero_Identity(x) == x

\* max(Decimal("0"), x)
max_zero(x) == DecMax[Zero, x]

\* KPIs FINAUX
brrrr_kpis(input_data, acq, ren, rent, refi) ==
    With[[total_cash_invested \in {DecAdd[DecAdd[acq.total_cash_at_acquisition, ren.total_reno_budget],
               ren.total_carry_cost]} |->
    With[[cash_extracted \in {max_zero(refi.net_cash_out)} |->
    With[[equity_left_in_deal \in {max_zero(DecSub[total_cash_invested, cash_extracted])} |->
    With[[monthly_cashflow \in {DecSub[rent.monthly_noi, refi.total_monthly_debt_service]} |->
    With[[annual_cashflow \in {DecMul[monthly_cashflow, Twelve]} |->
    With[[is_infinite_return \in {DecLe[equity_left_in_deal, Zero]} |->
    With[[cash_on_cash \in {IF is_infinite_return THEN DecOf[999999, 0]
        ELSE Cents(DecMul[DecDiv[annual_cashflow, equity_left_in_deal], Hundred])} |->
    With[[dcr \in {calculate_dcr(rent.annual_noi, DecMul[refi.total_monthly_debt_service, Twelve])} |->
    With[[stress_test_rate \in {calculate_stress_test_rate(input_data.refinance_rate)} |->
    With[[monthly_payment_stress \in {
        calculate_monthly_mortgage_payment(refi.new_mortgage_amount, stress_test_rate, input_data.refinance_amort_years)
    } |->
    With[[passes_stress_test \in {DecGe[DecSub[rent.monthly_noi, monthly_payment_stress], Zero]} |->
        [warnings |->
            AppendIf(input_data.total_units >= 5 /\ ~DecGe[dcr, BSIF_MIN_DCR_COMMERCIAL],
                     "DCR inferieur au minimum")
            \o AppendIf(~passes_stress_test, "Cashflow negatif au taux du stress test")
            \o AppendIf(DecLt[monthly_cashflow, Zero],
                        "Cashflow negatif - Ce projet coute de l'argent chaque mois")
            \o AppendIf(DecLt[cash_on_cash, DecOf[5, 0]] /\ ~is_infinite_return,
                        "Cash-on-Cash inferieur a 5% - Rendement faible"),
         kpis |->
            [total_cash_invested |-> Cents(total_cash_invested),
             cash_extracted_at_refi |-> Cents(cash_extracted),
             equity_left_in_deal |-> Cents(equity_left_in_deal),
             monthly_noi |-> Cents(rent.monthly_noi),
             monthly_debt_service |-> Cents(refi.total_monthly_debt_service),
             monthly_cashflow |-> Cents(monthly_cashflow),
             annual_cashflow |-> Cents(annual_cashflow),
             cash_on_cash_return |-> cash_on_cash,
             return_on_equity |-> cash_on_cash,
             cap_rate |->
                IF DecGt[input_data.after_repair_value, Zero]
                THEN Cents(DecMul[DecDiv[rent.annual_noi, input_data.after_repair_value],
                                  Hundred])
                ELSE Zero,
             gross_rent_multiplier |->
                IF DecGt[input_data.projected_monthly_rent, Zero]
                THEN Cents(DecDiv[input_data.purchase_price,
                                  DecMul[input_data.projected_monthly_rent, Twelve]])
                ELSE Zero,
             is_infinite_return |-> is_infinite_return,
             debt_coverage_ratio |-> dcr,
             meets_min_dcr |-> DecGe[dcr, BSIF_MIN_DCR_COMMERCIAL],
             stress_test_rate |-> stress_test_rate,
             monthly_payment_at_stress_rate |-> monthly_payment_stress,
             passes_stress_test |-> passes_stress_test]]]]]]]]]]]]]]]]]]]]]]]]

\* the fields of the result records that are results of quantize(PRECISION)
QuantizedFields ==
    {"cash_on_cash", "total_investment", "down_payment_amount", "transfer_tax", "cmhc_premium", "total_closing_costs",
     "initial_mortgage_amount", "initial_monthly_payment", "total_cash_at_acquisition",
     "contingency", "total_budget", "monthly_carry_cost", "total_carry_cost",
     "effective_gross_income", "vacancy_loss", "municipal_taxes", "school_taxes",
     "insurance", "maintenance", "management", "total_operating_expenses", "monthly_noi",
     "annual_noi", "new_mortgage_amount", "heloc_portion_amount",
     "amortized_portion_amount", "monthly_mortgage_payment", "monthly_heloc_payment",
     "total_monthly_debt_service", "gross_cash_out", "net_cash_out",
     "total_cash_invested", "cash_extracted_at_refi", "equity_left_in_deal",
     "monthly_debt_service", "monthly_cashflow", "annual_cashflow",
     "cash_on_cash_return", "return_on_equity", "cap_rate", "gross_rent_multiplier",
     "debt_coverage_ratio", "monthly_payment_at_stress_rate"}

\* quantize raises decimal.InvalidOperation when its result has more than PREC
\* digits: some quantized field of the record has.  (A payment is a double in
\* the code: the model gives its digits up to 15 significant ones, and beyond
\* that only whether the call raises.)
QuantizeRaises(record) ==
    \E f \in DOMAIN record \cap QuantizedFields :
        record[f] # None /\ BDigits[record[f].c] > PREC

\* faulty variant of the list growth: new warnings enter at the front
\* (mutation test of C15)
list_extend_Front(l, more) == more \o l

\* l.extend(more), and l.append(w) one after the other for the w of more
list_extend(l, more) == l \o more

calculate_brrrr(input_data) ==
    IF NoTaxConfig(input_data.municipality) THEN ValueError
    ELSE With[[acq \in {brrrr_acquisition(input_data)} |->
         With[[ren \in {brrrr_renovation(input_data, acq.initial_monthly_payment)} |->
         With[[rent \in {brrrr_rental(input_data)} |->
         With[[refi \in {
             brrrr_refinance(input_data, acq.initial_mortgage_amount, ren.total_reno_budget)
         } |->
         With[[k \in {brrrr_kpis(input_data, acq, ren, rent, refi)} |->
             IF \/ QuantizeRaises(acq.acquisition) \/ QuantizeRaises(ren.renovation)
                \/ QuantizeRaises(rent.rental) \/ QuantizeRaises(refi.refinance)
                \/ QuantizeRaises(k.kpis)
             THEN InvalidOperation
             ELSE [acquisition |-> acq.acquisition,
                   renovation  |-> ren.renovation,
                   rental      |-> rent.rental,
                   refinance   |-> refi.refinance,
                   kpis        |-> k.kpis,
                   validation  |-> [is_valid |-> Len(<<>>) = 0,
                                    warnings |-> list_extend(acq.warnings, k.warnings),
                                    errors   |-> <<>>]]]]]]]]]]]]

MaxBrrrrCents == 2

\* a PropertyFinancialsInput: a duplex bought for 100000 in OTHER_QC without
\* renovation, which breaks even at other_closing_costs = 1676 when the
\* after-repair value is 130000
BrrrrBaseInput ==
    [purchase_price |-> DecOf[100000, 0], down_payment_percent |-> DecOf[20, 2],
     municipality |-> "OTHER_QC", notary_fees |-> DecOf[0, 0],
     inspection_fees |-> DecOf[0, 0], other_closing_costs |-> DecOf[1676, 0],
     mortgage_rate |-> DecOf[5, 2], amortization_years |-> 25,
     renovation_budget |-> DecOf[0, 0], renovation_contingency_percent |-> DecOf[10, 0],
     renovation_duration_months |-> 0, reno_financing_type |-> "CASH",
     heloc_rate_for_reno |-> None, projected_monthly_rent |-> DecOf[1500, 0],
     vacancy_rate_percent |-> DecOf[5, 0], municipal_taxes |-> DecOf[2400, 0],
     school_taxes |-> DecOf[500, 0], insurance_annual |-> DecOf[2400, 0],
     maintenance_percent |-> DecOf[5, 0], management_percent |-> DecOf[0, 0],
     utilities_monthly |-> DecOf[0, 0], after_repair_value |-> DecOf[130000, 0],
     refinance_rate |-> DecOf[55, 3], refinance_amort_years |-> 25,
     total_units |-> 2, is_owner_occupied |-> FALSE]

BrrrrValues == {DecOf[0, 0], DecOf[130000, 0], DecOf[13000001, 2], DecOf[160000, 0]}

BrrrrRents == {DecOf[0, 0], DecOf[1500, 0]}

\* o is <<total_units, is_owner_occupied>>; r is <<renovation_budget,
\* renovation_duration_months, reno_financing_type, heloc_rate_for_reno>>
BrrrrInputs ==
    {[BrrrrBaseInput EXCEPT !.other_closing_costs = occ, !.after_repair_value = arv,
                            !.down_payment_percent = dp, !.total_units = o[1],
                            !.is_owner_occupied = o[2], !.mortgage_rate = mr,
                            !.refinance_rate = rr, !.projected_monthly_rent = rent] :
        occ \in {DecOf[167600 + k, 2] : k \in (-1)..MaxBrrrrCents},
        arv \in BrrrrValues, dp \in {DecOf[5, 2], DecOf[20, 2]},
        o \in {<<2, TRUE>>, <<2, FALSE>>, <<5, FALSE>>}, mr \in {DecOf[0, 0], DecOf[5, 2]},
        rr \in {DecOf[0, 0], DecOf[55, 3]}, rent \in BrrrrRents}
    \cup
    {[BrrrrBaseInput EXCEPT !.renovation_budget = r[1], !.renovation_duration_months = r[2],
                            !.reno_financing_type = r[3], !.heloc_rate_for_reno = r[4],
                            !.after_repair_value = arv, !.projected_monthly_rent = rent] :
        r \in {<<DecOf[20000, 0], 6, "HELOC", DecOf[695, 4]>>,
               <<DecOf[20000, 0], 6, "HELOC", None>>,
               <<DecOf[20000, 0], 6, "CASH", DecOf[695, 4]>>,
               <<DecOf[0, 0], 6, "HELOC", DecOf[695, 4]>>},
        arv \in BrrrrValues, rent \in BrrrrRents}
    \cup
    {[BrrrrBaseInput EXCEPT !.municipality = m] : m \in {"MONTREAL", "ONTARIO"}}
    \cup
    {[BrrrrBaseInput EXCEPT !.other_closing_costs = occ] :
        occ \in {DecAdd[DecOf[1676, 0], DecOf[1, 21]], DecAdd[DecOf[1676, 0], DecOf[1, 20]]}}
    \cup
    {[BrrrrBaseInput EXCEPT !.after_repair_value = Dec[1, <<0, 0, 0, 0, 0, 0, 1000>>, 0]]}
    \cup
    {[BrrrrBaseInput EXCEPT !.other_closing_costs = DecOf[1676004, 3],
                            !.after_repair_value = DecOf[129999995, 3]]}
    \cup
    {[BrrrrBaseInput EXCEPT !.after_repair_value = DecOf[13000004, 2]]}

InitBrrrr ==
    /\ pc = "call"
    /\ fn = "calculate_brrrr"
    /\ arg \in BrrrrInputs
    /\ ret = None

Run_calculate_brrrr ==
    /\ pc = "call" /\ fn = "calculate_brrrr"
    /\ ret' = calculate_brrrr(arg)
    /\ pc' = "done"
    /\ UNCHANGED <<fn, arg>>

NextBrrrr == Run_calculate_brrrr

SpecBrrrr == InitBrrrr /\ [][NextBrrrr]_vars

\* calculate_brrrr has returned a result
BrrrrResult == pc = "done" /\ fn = "calculate_brrrr" /\ ~Raised(ret)

\* C2: whenever the reported kpis.equity_left_in_deal is 0, is_infinite_return
\* is true and cash_on_cash_return is 999999.
C2_ZeroEquityIsInfiniteReturn ==
    (BrrrrResult /\ DecEq[ret.kpis.equity_left_in_deal, Zero]) =>
        /\ ret.kpis.is_infinite_return
        /\ DecEq[ret.kpis.cash_on_cash_return, DecOf[999999, 0]]

\* C13: for every validated input with a supported municipality calculate_brrrr
\* completes and returns a full result whose validation.errors is empty and
\* whose validation.is_valid is true: an unfavourable outcome only adds warnings.
C13_BrrrrAlwaysCompletes ==
    (pc = "done" /\ fn = "calculate_brrrr" /\ arg.municipality \in MunicipalityCode) =>
        /\ ~Raised(ret)
        /\ DOMAIN ret = {"acquisition", "renovation", "rental", "refinance", "kpis", "validation"}
        /\ ret.validation.errors = <<>>
        /\ ret.validation.is_valid

\* the position of a warning's category in the order of C15: an insurance-rule
\* note, the DCR warning, the stress-test warning, the cashflow warning, the
\* cash-on-cash warning
WarningCategory(w) ==
    CASE w = "DCR inferieur au minimum" -> 2
      [] w = "Cashflow negatif au taux du stress test" -> 3
      [] w = "Cashflow negatif - Ce projet coute de l'argent chaque mois" -> 4
      [] w = "Cash-on-Cash inferieur a 5% - Rendement faible" -> 5
      [] OTHER -> 1

\* C15: the warnings of every calculate_brrrr result keep a fixed order: the
\* insurance-rule notes, then the DCR warning, then the stress-test warning, then
\* the negative-cashflow warning, then the cash-on-cash warning; each of the four
\* warnings appears at most once and never before a warning of an earlier category.
C15_WarningsInFixedOrder ==
    BrrrrResult =>
        \A i, j \in 1..Len(ret.validation.warnings) :
            i < j =>
                /\ WarningCategory(ret.validation.warnings[i])
                       <= WarningCategory(ret.validation.warnings[j])
                /\ WarningCategory(ret.validation.warnings[j]) > 1
                       => WarningCategory(ret.validation.warnings[i])
                              < WarningCategory(ret.validation.warnings[j])

\* a five-plex whose result carries the insurance note and all four warnings
C15_Witness ==
    /\ BrrrrResult
    /\ arg.total_units = 5
    /\ Len(ret.validation.warnings) = 5
    /\ WarningCategory(ret.validation.warnings[1]) = 1
    /\ WarningCategory(ret.validation.warnings[5]) = 5

(***************************************************************************)
(* brrrr_engine.py: quick_brrrr_metrics                                    *)
(***************************************************************************)
\* QuickMetrics(...), or the error of the first quantize that cannot hold its
\* result
QuickMetrics(metrics) == IF QuantizeRaises(metrics) THEN InvalidOperation ELSE metrics

\* faulty variant: the flag of the infinite return is never set (mutation test
\* of C23)
quick_brrrr_metrics_NoFlag(purchase_price, renovation_budget, monthly_rent, arv, mortgage_rate) ==
    With[[total_investment \in {DecAdd[DecAdd[DecMul[purchase_price, DecOf[20, 2]],
                      DecAdd[DecMul[purchase_price, DecOf[2, 2]], DecOf[5000, 0]]],
               renovation_budget]} |->
    With[[annual_noi \in {DecMul[DecMul[monthly_rent, Twelve], DecOf[70, 2]]} |->
    With[[new_mortgage \in {DecMul[arv, DecOf[80, 2]]} |->
    With[[annual_cashflow \in {DecSub[annual_noi,
               DecMul[calculate_monthly_mortgage_payment(new_mortgage, mortgage_rate, 25),
                      Twelve]]} |->
    With[[cash_out \in {
        DecSub[new_mortgage, DecAdd[DecMul[purchase_price, DecOf[80, 2]], renovation_budget]]
    } |->
    With[[equity_left \in {max_zero(DecSub[total_investment, cash_out])} |->
        QuickMetrics(
            [cash_on_cash |->
                IF DecGt[equity_left, Zero]
                THEN Cents(DecMul[DecDiv[annual_cashflow, equity_left], Hundred])
                ELSE DecOf[999999, 0],
             monthly_cashflow |-> Cents(DecDiv[annual_cashflow, Twelve]),
             cap_rate |->
                IF DecGt[arv, Zero] THEN Cents(DecMul[DecDiv[annual_noi, arv], Hundred])
                ELSE Zero,
             is_infinite_return |-> FALSE,
             total_investment |-> Cents(total_investment)])]]]]]]]]]]]]

quick_brrrr_metrics(purchase_price, renovation_budget, monthly_rent, arv, mortgage_rate) ==
    With[[total_investment \in {DecAdd[DecAdd[DecMul[purchase_price, DecOf[20, 2]],
                      DecAdd[DecMul[purchase_price, DecOf[2, 2]], DecOf[5000, 0]]],
               renovation_budget]} |->
    With[[annual_noi \in {DecMul[DecMul[monthly_rent, Twelve], DecOf[70, 2]]} |->
    With[[new_mortgage \in {DecMul[arv, DecOf[80, 2]]} |->
    With[[annual_cashflow \in {DecSub[annual_noi,
               DecMul[calculate_monthly_mortgage_payment(new_mortgage, mortgage_rate, 25),
                      Twelve]]} |->
    With[[cash_out \in {
        DecSub[new_mortgage, DecAdd[DecMul[purchase_price, DecOf[80, 2]], renovation_budget]]
    } |->
    With[[equity_left \in {max_zero(DecSub[total_investment, cash_out])} |->
        QuickMetrics(
            [cash_on_cash |->
                IF DecGt[equity_left, Zero]
                THEN Cents(DecMul[DecDiv[annual_cashflow, equity_left], Hundred])
                ELSE DecOf[999999, 0],
             monthly_cashflow |-> Cents(DecDiv[annual_cashflow, Twelve]),
             cap_rate |->
                IF DecGt[arv, Zero] THEN Cents(DecMul[DecDiv[annual_noi, arv], Hundred])
                ELSE Zero,
             is_infinite_return |-> ~DecGt[equity_left, Zero],
             total_investment |-> Cents(total_investment)])]]]]]]]]]]]]

\* the arguments of the endpoint are Decimals without a constraint; the
\* after-repair values 133750 and 158750 leave no equity after a purchase at
\* 100000, without renovation and with a renovation of 10000
InitQuick ==
    /\ pc = "call"
    /\ fn = "quick_brrrr_metrics"
    /\ arg \in [purchase_price : {DecOf[100000, 0], DecOf[10000001, 2]},
                renovation_budget : {DecOf[0, 0], DecOf[10000, 0], DecOf[20000, 0]},
                monthly_rent : BrrrrRents \cup {DecOf[90050, 2]},
                arv : {DecOf[-1, 0], DecOf[0, 0], DecOf[130000, 0], DecOf[200000, 0],
                       DecSub[DecOf[133750, 0], DecOf[1, 22]]}
                          \cup {DecOf[b + k, 2] : b \in {13375000, 15875000},
                                                 k \in (-1)..MaxBrrrrCents},
                mortgage_rate : {DecOf[0, 0], DecOf[525, 4], DecOf[55, 3]}]
    /\ ret = None

Run_quick_brrrr_metrics ==
    /\ pc = "call" /\ fn = "quick_brrrr_metrics"
    /\ ret' = quick_brrrr_metrics(arg.purchase_price, arg.renovation_budget,
                                  arg.monthly_rent, arg.arv, arg.mortgage_rate)
    /\ pc' = "done"
    /\ UNCHANGED <<fn, arg>>

NextQuick == Run_quick_brrrr_metrics

SpecQuick == InitQuick /\ [][NextQuick]_vars

\* quick_brrrr_metrics has returned its metrics
QuickResult == pc = "done" /\ fn = "quick_brrrr_metrics" /\ ~Raised(ret)

\* the references of C23, computed from the arguments before any rounding
QuickTotalInvestment ==
    DecAdd[DecAdd[DecMul[DecOf[20, 2], arg.purchase_price],
                  DecAdd[DecMul[DecOf[2, 2], arg.purchase_price], DecOf[5000, 0]]],
           arg.renovation_budget]

\* the 80%-of-ARV mortgage less the debt it repays, 80% of the price and the
\* renovation budget
QuickCapitalExtracted ==
    DecSub[DecMul[DecOf[80, 2], arg.arv],
           DecAdd[DecMul[DecOf[80, 2], arg.purchase_price], arg.renovation_budget]]

QuickEquityLeft == DecMax[Zero, DecSub[QuickTotalInvestment, QuickCapitalExtracted]]

\* 70% of the annual rent less twelve payments on the 80%-of-ARV mortgage
QuickAnnualCashflow ==
    DecSub[DecMul[DecMul[arg.monthly_rent, DecOf[12, 0]], DecOf[70, 2]],
           DecMul[calculate_monthly_mortgage_payment(DecMul[DecOf[80, 2], arg.arv],
                                                     arg.mortgage_rate, 25),
                  DecOf[12, 0]]]

InitLookup == InitTax \/ InitBrrrr

NextLookup == NextTax \/ NextBrrrr

SpecLookup == InitLookup /\ [][NextLookup]_vars

\* a call of one of the three functions has ended
LookupDone ==
    pc = "done" /\ fn \in {"calculate_transfer_tax", "get_transfer_tax_breakdown",
                           "calculate_brrrr"}

\* C11: calculate_transfer_tax, get_transfer_tax_breakdown and calculate_brrrr
\* called with a municipality code that has no entry in the tax table end with
\* ValueError, and then nothing else is returned: the outcome carries no phase
\* result, no warning list and no partial record.
C11_UnsupportedMunicipalityRaises ==
    (LookupDone /\ arg.municipality \notin MunicipalityCode) =>
        /\ ret = ValueError
        /\ DOMAIN ret = {"raised"}

C11_Witness ==
    /\ pc = "done" /\ fn = "calculate_brrrr"
    /\ arg.municipality = "ONTARIO"
    /\ ret = ValueError

(***************************************************************************)
(* The insurance premium, computed alone and within calculate_brrrr.       *)
(***************************************************************************)
InitInsurance == InitCmhc \/ InitBrrrr

NextInsurance == NextCmhc \/ NextBrrrr

SpecInsurance == InitInsurance /\ [][NextInsurance]_vars

\* the premium rate of a down-payment tier named by C17, None outside them
CmhcTierRate(down_payment_percent) ==
    IF DecGe[down_payment_percent, DecOf[20, 2]] THEN None
    ELSE IF DecGe[down_payment_percent, DecOf[15, 2]] THEN DecOf[28, 3]
    ELSE IF DecGe[down_payment_percent, DecOf[10, 2]] THEN DecOf[31, 3]
    ELSE IF DecGe[down_payment_percent, DecOf[5, 2]] THEN DecOf[4, 2]
    ELSE None

\* no exclusion rule of calculate_cmhc_premium holds for the arguments
CmhcInsurable ==
    /\ arg.is_owner_occupied
    /\ arg.total_units <= 4
    /\ DecLe[arg.purchase_price, DecOf[999999, 0]]
    /\ CmhcTierRate(arg.down_payment_percent) # None

\* purchase_price - purchase_price * down_payment_percent
BrrrrLoanAmount == DecSub[arg.purchase_price, DecMul[arg.purchase_price, arg.down_payment_percent]]

\* C17: when no exclusion rule matches, calculate_cmhc_premium selects the rate
\* by down-payment tier (2.8% for [15%,20%), 3.1% for [10%,15%), 4.0% for
\* [5%,10%)) and returns that rate with premium = loan_amount * rate rounded to
\* cents; calculate_brrrr adds the premium to the loan: the initial mortgage
\* amount it reports is loan + premium, in cents.
C17_PremiumByTierAddedToLoan ==
    /\ (CmhcCall /\ CmhcInsurable) =>
           /\ DecEq[ret.premium_rate, CmhcTierRate(arg.down_payment_percent)]
           /\ IsRoundedToCents(ret.premium_amount,
                               DecMul[arg.loan_amount, CmhcTierRate(arg.down_payment_percent)])
    /\ (BrrrrResult /\ CmhcInsurable) =>
           /\ DecEq[ret.acquisition.cmhc_premium_percent, CmhcTierRate(arg.down_payment_percent)]
           /\ IsRoundedToCents(ret.acquisition.cmhc_premium,
                               DecMul[BrrrrLoanAmount, CmhcTierRate(arg.down_payment_percent)])
           /\ DecEq[ret.acquisition.initial_mortgage_amount,
                    Cents(DecAdd[BrrrrLoanAmount, ret.acquisition.cmhc_premium])]

\* an owner-occupied duplex bought for 100000 with 5% down: the premium is 4% of
\* 95000 and the initial mortgage is 98800
C17_Witness ==
    /\ BrrrrResult
    /\ arg.is_owner_occupied /\ arg.total_units = 2
    /\ arg.down_payment_percent = DecOf[5, 2]
    /\ DecEq[ret.acquisition.cmhc_premium, DecOf[3800, 0]]
    /\ DecEq[ret.acquisition.initial_mortgage_amount, DecOf[98800, 0]]

\* the notes of calculate_cmhc_premium
CmhcNotes ==
    {"Mise de fonds >= 20%: Aucune assurance SCHL requise",
     "Investisseur non-occupant: Mise de fonds 20% minimum requise",
     "5+ logements: Financement commercial requis",
     "Prix > 1M$: Non assurable SCHL, 20% minimum requis",
     "Prime SCHL 2.8%: Mise de fonds 15-19.99%",
     "Prime SCHL 3.1%: Mise de fonds 10-14.99%",
     "Prime SCHL 4.0%: Mise de fonds 5-9.99%"}

\* C25: calculate_cmhc_premium returns exactly one note on every path, so the
\* warnings of every calculate_brrrr result are non-empty and start with
\* exactly one insurance-rule note, also when the down payment is >= 20% and
\* nothing else is flagged.
C25_OneInsuranceNoteFirst ==
    /\ CmhcCall => (Len(ret.notes) = 1 /\ ret.notes[1] \in CmhcNotes)
    /\ BrrrrResult =>
           /\ Len(ret.validation.warnings) >= 1
           /\ ret.validation.warnings[1] \in CmhcNotes
           /\ \A i \in 2..Len(ret.validation.warnings) :
                  ret.validation.warnings[i] \notin CmhcNotes

\* a deal with 20% down that passes every test: its only warning is the note
\* that no insurance is required
C25_Witness ==
    /\ BrrrrResult
    /\ arg.down_payment_percent = DecOf[20, 2]
    /\ ret.kpis.passes_stress_test
    /\ DecGt[ret.kpis.monthly_cashflow, Zero]
    /\ ret.validation.warnings = <<"Mise de fonds >= 20%: Aucune assurance SCHL requise">>

(***************************************************************************)
(* The qualifying rate, computed alone and within calculate_brrrr.         *)
(***************************************************************************)
InitStressTest == InitMortgage \/ InitBrrrr

NextStressTest == NextMortgage \/ NextBrrrr

SpecStressTest == InitStressTest /\ [][NextStressTest]_vars

\* rate is max(contract_rate + 0.02, 0.0525): an upper bound of the two that is
\* one of them
IsStressTestRateOf(rate, contract_rate) ==
    /\ DecGe[rate, DecAdd[contract_rate, DecOf[2, 2]]]
    /\ DecGe[rate, DecOf[525, 4]]
    /\ DecEq[rate, DecAdd[contract_rate, DecOf[2, 2]]] \/ DecEq[rate, DecOf[525, 4]]

\* C18: calculate_stress_test_rate(r) equals max(r + 0.02, 0.0525) for every
\* contract rate r, so it is never below 0.0525 and never below r + 0.02, and
\* the kpis.stress_test_rate of calculate_brrrr is this value for the refinance
\* rate.
C18_StressTestRateIsMax ==
    /\ (pc = "done" /\ fn = "calculate_stress_test_rate") =>
           IsStressTestRateOf(ret, arg.contract_rate)
    /\ BrrrrResult => IsStressTestRateOf(ret.kpis.stress_test_rate, arg.refinance_rate)

\* a refinance at 0%: the buffered rate 0.02 is below the floor, the result
\* reports 0.0525
C18_Witness ==
    /\ BrrrrResult
    /\ arg.refinance_rate = DecOf[0, 0]
    /\ DecEq[ret.kpis.stress_test_rate, DecOf[525, 4]]

(***************************************************************************)
(* The refinance phase and the KPIs against their references.  The         *)
(* references are computed from the input, before any rounding.            *)
(***************************************************************************)
\* the premium added to the loan: the reported one, 0 when there is none
BrrrrPremium ==
    IF ret.acquisition.cmhc_premium = None THEN Zero ELSE ret.acquisition.cmhc_premium

\* the mortgage balance before the refinance: the loan and its premium
BrrrrInitialMortgage == DecAdd[BrrrrLoanAmount, BrrrrPremium]

\* the renovation budget with its contingency
BrrrrTotalRenoBudget ==
    DecAdd[arg.renovation_budget,
           DecMul[arg.renovation_budget, DecDiv[arg.renovation_contingency_percent, Hundred]]]

BrrrrNewMortgage == DecMul[DecOf[80, 2], arg.after_repair_value]

BrrrrRotatingPortion == DecMin[BrrrrNewMortgage, DecMul[DecOf[65, 2], arg.after_repair_value]]

BrrrrGrossCashOut ==
    DecSub[BrrrrNewMortgage, DecAdd[BrrrrInitialMortgage, BrrrrTotalRenoBudget]]

\* C19 as stated: the reported amounts of the refinance phase equal their
\* references
C19_RefinanceEqualsReference ==
    BrrrrResult =>
        /\ DecEq[ret.refinance.new_mortgage_amount, BrrrrNewMortgage]
        /\ DecEq[ret.refinance.heloc_portion_amount, BrrrrRotatingPortion]
        /\ DecEq[ret.refinance.amortized_portion_amount,
                 DecSub[BrrrrNewMortgage, BrrrrRotatingPortion]]
        /\ DecEq[ret.refinance.total_refinance_costs, DecOf[1600, 0]]
        /\ DecEq[ret.refinance.gross_cash_out, BrrrrGrossCashOut]
        /\ DecEq[ret.refinance.net_cash_out, DecSub[BrrrrGrossCashOut, DecOf[1600, 0]]]

\* C19: the refinance phase of calculate_brrrr reports, each rounded to the
\* nearest cent: new mortgage = 0.80 * ARV, rotating portion = min(0.80 * ARV,
\* 0.65 * ARV), amortized portion = new mortgage - rotating portion, gross cash
\* out = new mortgage - (initial mortgage + renovation budget with contingency),
\* net cash out = gross cash out - 1600; the refinance costs are 400 + 1200 =
\* 1600 exactly.
C19_RefinanceMatchesRoundedReference ==
    BrrrrResult =>
        /\ IsRoundedToCents(ret.refinance.new_mortgage_amount, BrrrrNewMortgage)
        /\ IsRoundedToCents(ret.refinance.heloc_portion_amount, BrrrrRotatingPortion)
        /\ IsRoundedToCents(ret.refinance.amortized_portion_amount,
                            DecSub[BrrrrNewMortgage, BrrrrRotatingPortion])
        /\ DecEq[ret.refinance.appraisal_fee, DecOf[400, 0]]
        /\ DecEq[ret.refinance.legal_fees, DecOf[1200, 0]]
        /\ DecEq[ret.refinance.total_refinance_costs, DecOf[1600, 0]]
        /\ IsRoundedToCents(ret.refinance.gross_cash_out, BrrrrGrossCashOut)
        /\ IsRoundedToCents(ret.refinance.net_cash_out,
                            DecSub[BrrrrGrossCashOut, DecOf[1600, 0]])

\* an after-repair value of 130000.01 with a renovation of 20000 + 10%: the
\* ceilings 104000.008 and 84500.0065 are reported as 104000.01 and 84500.01,
\* the gross cash out 104000.008 - (80000 + 22000) as 2000.01
C19_Witness ==
    /\ BrrrrResult
    /\ arg.after_repair_value = DecOf[13000001, 2]
    /\ arg.renovation_budget = DecOf[20000, 0]
    /\ ret.refinance.new_mortgage_amount = DecOf[10400001, 2]
    /\ ret.refinance.heloc_portion_amount = DecOf[8450001, 2]
    /\ ret.refinance.amortized_portion_amount = DecOf[1950000, 2]
    /\ ret.refinance.gross_cash_out = DecOf[200001, 2]
    /\ ret.refinance.net_cash_out = DecOf[40001, 2]

\* the two amounts are at most cents apart
WithinCents(x, y, cents) == DecLe[DecAbs(DecSub[x, y]), DecOf[cents, 2]]

\* C20 as stated: the reported KPIs satisfy the three equations
C20_KpiEquations ==
    BrrrrResult =>
        /\ DecEq[ret.kpis.total_cash_invested,
                 DecAdd[DecAdd[ret.acquisition.total_cash_at_acquisition,
                               ret.renovation.total_budget],
                        ret.renovation.total_carry_cost]]
        /\ DecEq[ret.kpis.cash_extracted_at_refi, DecMax[Zero, ret.refinance.net_cash_out]]
        /\ DecEq[ret.kpis.equity_left_in_deal,
                 DecMax[Zero, DecSub[ret.kpis.total_cash_invested,
                                     ret.kpis.cash_extracted_at_refi]]]
        /\ DecGe[ret.kpis.cash_extracted_at_refi, Zero]
        /\ DecGe[ret.kpis.equity_left_in_deal, Zero]
        /\ DecLe[ret.kpis.equity_left_in_deal, ret.kpis.total_cash_invested]

\* C20: every amount of a calculate_brrrr result is rounded to cents after the
\* equations are applied to the unrounded amounts, so among the reported
\* amounts total_cash_invested is within 2 cents of cash at acquisition + total
\* renovation budget + total carry cost, cash_extracted_at_refi is max(0, net
\* cash out) exactly and equity_left_in_deal is within 1 cent of max(0,
\* total_cash_invested - cash_extracted_at_refi); cash_extracted_at_refi and
\* equity_left_in_deal are never negative and equity_left_in_deal never exceeds
\* total_cash_invested.
C20_KpiEquationsWithinRounding ==
    BrrrrResult =>
        /\ WithinCents(ret.kpis.total_cash_invested,
                       DecAdd[DecAdd[ret.acquisition.total_cash_at_acquisition,
                                     ret.renovation.total_budget],
                              ret.renovation.total_carry_cost], 2)
        /\ DecEq[ret.kpis.cash_extracted_at_refi, DecMax[Zero, ret.refinance.net_cash_out]]
        /\ WithinCents(ret.kpis.equity_left_in_deal,
                       DecMax[Zero, DecSub[ret.kpis.total_cash_invested,
                                           ret.kpis.cash_extracted_at_refi]], 1)
        /\ DecGe[ret.kpis.cash_extracted_at_refi, Zero]
        /\ DecGe[ret.kpis.equity_left_in_deal, Zero]
        /\ DecLe[ret.kpis.equity_left_in_deal, ret.kpis.total_cash_invested]

\* cash invested 22400.004 and net cash out 22399.996 are both reported as
\* 22400.00, their difference 0.008 as an equity of 0.01
C20_Witness ==
    /\ BrrrrResult
    /\ arg.other_closing_costs = DecOf[1676004, 3]
    /\ arg.after_repair_value = DecOf[129999995, 3]
    /\ ret.kpis.total_cash_invested = DecOf[2240000, 2]
    /\ ret.kpis.cash_extracted_at_refi = DecOf[2240000, 2]
    /\ ret.kpis.equity_left_in_deal = DecOf[1, 2]

\* C26 as stated: the reported rotating and amortized portions add up to the
\* reported new mortgage, and the reported rotating portion is 65% of the ARV
C26_PortionsAddUp ==
    BrrrrResult =>
        /\ DecEq[DecAdd[ret.refinance.heloc_portion_amount,
                        ret.refinance.amortized_portion_amount],
                 ret.refinance.new_mortgage_amount]
        /\ DecEq[ret.refinance.heloc_portion_amount,
                 DecMul[DecOf[65, 2], arg.after_repair_value]]

\* C26: in every RefinanceResult the reported heloc_portion_amount plus the
\* reported amortized_portion_amount is within one cent of the reported
\* new_mortgage_amount, for every after-repair value, and the reported
\* heloc_portion_amount is the 65%-of-ARV ceiling rounded to the nearest cent.
C26_PortionsAddUpWithinACent ==
    BrrrrResult =>
        /\ WithinCents(DecAdd[ret.refinance.heloc_portion_amount,
                              ret.refinance.amortized_portion_amount],
                       ret.refinance.new_mortgage_amount, 1)
        /\ IsRoundedToCents(ret.refinance.heloc_portion_amount,
                            DecMul[DecOf[65, 2], arg.after_repair_value])

\* an after-repair value of 130000.04: the portions 84500.026 and 19500.006
\* are reported as 84500.03 and 19500.01, the new mortgage 104000.032 as
\* 104000.03
C26_Witness ==
    /\ BrrrrResult
    /\ arg.after_repair_value = DecOf[13000004, 2]
    /\ ret.refinance.heloc_portion_amount = DecOf[8450003, 2]
    /\ ret.refinance.amortized_portion_amount = DecOf[1950001, 2]
    /\ ret.refinance.new_mortgage_amount = DecOf[10400003, 2]

(***************************************************************************)
(* The two compliance tests of the KPIs and their warnings.                *)
(***************************************************************************)
\* the warning is in the warnings of the result
HasWarning(w) == \E i \in 1..Len(ret.validation.warnings) : ret.validation.warnings[i] = w

\* total_monthly_debt_service * 12; the monthly amount is a sum of payments in
\* cents, so the reported amount is the one the engine divides by
BrrrrAnnualDebtService == DecMul[ret.refinance.total_monthly_debt_service, Twelve]

\* C21: in calculate_brrrr, meets_min_dcr is true exactly when the reported
\* debt_coverage_ratio is >= 1.25; the ratio is annual NOI / annual debt service
\* to two decimals, and 0 when the annual debt service is <= 0; the DCR warning
\* is present exactly when total_units >= 5 and meets_min_dcr is false, and so
\* never for 1 to 4 units.
C21_DcrFlagAndWarning ==
    BrrrrResult =>
        /\ ret.kpis.meets_min_dcr <=> DecGe[ret.kpis.debt_coverage_ratio, DecOf[125, 2]]
        /\ IF DecLe[BrrrrAnnualDebtService, Zero]
           THEN DecEq[ret.kpis.debt_coverage_ratio, Zero]
           ELSE IsRoundedToCents(ret.kpis.debt_coverage_ratio,
                                 DecDiv[brrrr_rental(arg).annual_noi, BrrrrAnnualDebtService])
        /\ HasWarning("DCR inferieur au minimum")
               <=> (arg.total_units >= 5 /\ ~ret.kpis.meets_min_dcr)
        /\ arg.total_units \in 1..4 => ~HasWarning("DCR inferieur au minimum")

\* a five-plex with an after-repair value of 0: no debt service, the ratio is 0
\* and the warning is present
C21_Witness ==
    /\ BrrrrResult
    /\ arg.total_units = 5
    /\ arg.after_repair_value = DecOf[0, 0]
    /\ DecEq[ret.kpis.debt_coverage_ratio, Zero]
    /\ ~ret.kpis.meets_min_dcr
    /\ HasWarning("DCR inferieur au minimum")

\* C22: in calculate_brrrr, passes_stress_test is true exactly when monthly NOI
\* minus the amortized payment on the new total mortgage 0.80 * ARV, at the
\* stress-test rate over the refinance amortization, is >= 0; the stress-test
\* warning is present exactly when passes_stress_test is false.
C22_StressTestFlagAndWarning ==
    BrrrrResult =>
        /\ DecEq[ret.kpis.monthly_payment_at_stress_rate,
                 calculate_monthly_mortgage_payment(BrrrrNewMortgage, ret.kpis.stress_test_rate,
                                                    arg.refinance_amort_years)]
        /\ ret.kpis.passes_stress_test
               <=> DecGe[DecSub[brrrr_rental(arg).monthly_noi,
                                ret.kpis.monthly_payment_at_stress_rate], Zero]
        /\ HasWarning("Cashflow negatif au taux du stress test")
               <=> ~ret.kpis.passes_stress_test

\* the base duplex refinanced at 160000: the payment on 128000 at 7.5% exceeds
\* the monthly NOI, the test fails and the warning is present
C22_Witness ==
    /\ BrrrrResult
    /\ arg.after_repair_value = DecOf[160000, 0]
    /\ arg.refinance_rate = DecOf[55, 3]
    /\ arg.projected_monthly_rent = DecOf[1500, 0]
    /\ DecGt[ret.kpis.monthly_payment_at_stress_rate, ret.kpis.monthly_noi]
    /\ ~ret.kpis.passes_stress_test
    /\ HasWarning("Cashflow negatif au taux du stress test")

Init == InitTax

Next == NextTax

Spec == Init /\ [][Next]_vars

====
